---------------------------- MODULE Spec2Model ----------------------------
(***************************************************************************)
(* Run-lifecycle backend of build-process-watcher: per-run bearer tokens   *)
(* (internal/auth), the Firestore "runs" collection and its non-atomic     *)
(* read-modify-write operations (internal/storage), and the HTTP handlers  *)
(* that bind them (internal/handlers).                                     *)
(*                                                                         *)
(* Strings the program takes apart (the ingest payload, a sample line) are *)
(* sequences of one-character strings, so that Split, TrimSpace,           *)
(* TrimSuffix, Atoi and ParseFloat are computed and not assumed.           *)
(* Identifiers the program only compares (run ids) are plain strings.      *)
(***************************************************************************)
EXTENDS Integers, Sequences, FiniteSets, TLC

(***************************************************************************)
(* Bounds of the model.                                                    *)
(***************************************************************************)
\* requests made in one behaviour: HTTP requests to the backend and the
\* producer's direct updates of a document
MaxRequests == 3
\* single ticks the wall clock advances in one behaviour
MaxTime == 1
\* clock resolution: ticks per millisecond (Go's clock has 10^6 ns per ms)
TicksPerMilli == 2
\* sweeps begun in one behaviour of the cleanup specification
MaxSweeps == 2
\* stale timeouts its clock advances by
MaxWaits == 1
\* whole hours the clock of the token specification advances
MaxHours == 2

\* the goroutines net/http serves requests on; a request takes the first free
Procs == {1, 2}
RunIds == {"r1", "r2"}

\* requests the cleanup specifications accept: one for each run
MaxWrites == Cardinality(RunIds)

(***************************************************************************)
(* Time.  A time.Time is a number of ticks; the zero time.Time lies before *)
(* every instant of the clock.                                             *)
(***************************************************************************)
ZeroTime == 0
Millisecond == TicksPerMilli
Second == 1000 * Millisecond
Minute == 60 * Second
Hour == 60 * Minute

\* storage.ToMillis: t.UnixNano() / int64(time.Millisecond)
ToMillis(t) == t \div Millisecond

\* the instant the process starts: the last tick of a millisecond, so that the
\* clock crosses a millisecond boundary with its first tick
BootTime == 2 * Millisecond - 1

(***************************************************************************)
(* Text: Go's strings and strconv functions on sequences of characters.    *)
(***************************************************************************)
DigitChars == <<"0", "1", "2", "3", "4", "5", "6", "7", "8", "9">>
IsDigit(c) == \E i \in 1..Len(DigitChars) : DigitChars[i] = c
DigitVal(c) == (CHOOSE i \in 1..Len(DigitChars) : DigitChars[i] = c) - 1
IsSpace(c) == c \in {" ", "\n", "\t", "\r"}

\* strings.Split(s, sep) for a one-character separator
RECURSIVE Split(_, _)
Split(s, sep) ==
    IF \E i \in 1..Len(s) : s[i] = sep
    THEN LET i == CHOOSE k \in 1..Len(s) :
                      s[k] = sep /\ \A j \in 1..(k - 1) : s[j] # sep
         IN  <<SubSeq(s, 1, i - 1)>> \o Split(SubSeq(s, i + 1, Len(s)), sep)
    ELSE <<s>>

\* strings.TrimSpace
RECURSIVE TrimSpace(_)
TrimSpace(s) ==
    IF s = <<>> THEN s
    ELSE IF IsSpace(s[1]) THEN TrimSpace(Tail(s))
    ELSE IF IsSpace(s[Len(s)]) THEN TrimSpace(SubSeq(s, 1, Len(s) - 1))
    ELSE s

\* strings.TrimSuffix
TrimSuffix(s, suffix) ==
    IF Len(s) >= Len(suffix)
       /\ SubSeq(s, Len(s) - Len(suffix) + 1, Len(s)) = suffix
    THEN SubSeq(s, 1, Len(s) - Len(suffix))
    ELSE s

\* value of a sequence of digits
RECURSIVE DigitsVal(_)
DigitsVal(s) ==
    IF s = <<>> THEN 0
    ELSE 10 * DigitsVal(SubSeq(s, 1, Len(s) - 1)) + DigitVal(s[Len(s)])

AllDigits(s) == \A i \in 1..Len(s) : IsDigit(s[i])

\* strconv.Atoi: an optional sign and at least one digit
Atoi(s) ==
    LET signed == s # <<>> /\ s[1] \in {"+", "-"}
        body == IF signed THEN Tail(s) ELSE s
    IN  IF body # <<>> /\ AllDigits(body)
        THEN [ok |-> TRUE,
              val |-> IF signed /\ s[1] = "-" THEN 0 - DigitsVal(body)
                      ELSE DigitsVal(body)]
        ELSE [ok |-> FALSE, val |-> 0]

\* strconv.ParseFloat followed by the int() conversion ParseData applies to it:
\* decimal notation, an optional sign, digits with an optional fraction; val is
\* the value truncated toward zero.
ParseFloat(s) ==
    LET signed == s # <<>> /\ s[1] \in {"+", "-"}
        body == IF signed THEN Tail(s) ELSE s
        parts == Split(body, ".")
        whole == parts[1]
        frac == IF Len(parts) = 2 THEN parts[2] ELSE <<>>
        ok == /\ Len(parts) <= 2
              /\ AllDigits(whole) /\ AllDigits(frac)
              /\ Len(whole) + Len(frac) > 0
    IN  IF ok
        THEN [ok |-> TRUE,
              val |-> IF signed /\ s[1] = "-" THEN 0 - DigitsVal(whole)
                      ELSE DigitsVal(whole)]
        ELSE [ok |-> FALSE, val |-> 0]

(***************************************************************************)
(* Tokens (internal/auth).  A token string is the sequence of its          *)
(* dot-separated parts, which is what strings.Split(token, ".") returns.   *)
(* A part is the base64 encoding of some bytes, the hex encoding of a MAC, *)
(* or text that decodes as neither.  The bytes of a payload are the JSON   *)
(* of a TokenData or something json.Unmarshal refuses.                     *)
(***************************************************************************)
\* auth.secretKey, loaded once by Initialize
secretKey == "build-process-watcher-secret-2024-dev"
\* a key the server does not hold
ForeignKey == "not-the-server-key"

NoBytes == [kind |-> "none", run_id |-> "", expires_at |-> ZeroTime,
            created_at |-> ZeroTime]
NoMac == [key |-> "", msg |-> NoBytes]

\* json.Marshal of a models.TokenData
JsonMarshal(tokenData) ==
    [kind |-> "json", run_id |-> tokenData.run_id,
     expires_at |-> tokenData.expires_at, created_at |-> tokenData.created_at]
\* json.Unmarshal into a models.TokenData
JsonUnmarshal(bytes) ==
    [ok |-> bytes.kind = "json",
     tokenData |-> [run_id |-> bytes.run_id, expires_at |-> bytes.expires_at,
                    created_at |-> bytes.created_at]]

\* hmac.New(sha256.New, key); Write(msg); Sum(nil)
Hmac(key, msg) == [key |-> key, msg |-> msg]

Base64Encode(bytes) == [enc |-> "base64", bytes |-> bytes, sig |-> NoMac]
Base64Decode(part) == [ok |-> part.enc = "base64", bytes |-> part.bytes]
HexEncode(mac) == [enc |-> "hex", bytes |-> NoBytes, sig |-> mac]
HexDecode(part) == [ok |-> part.enc = "hex", sig |-> part.sig]
\* a part that is neither base64 nor hex
TextPart == [enc |-> "text", bytes |-> NoBytes, sig |-> NoMac]

\* the token's lifetime: expiresAt := time.Now().Add(2 * time.Hour)
TokenLifetimeHours == 2

\* GenerateToken had it signed with a key other than the one ValidateToken uses
GenerateTokenForeignKey(runID, t) ==
    LET expiresAt == t + TokenLifetimeHours * Hour
        payload == JsonMarshal([run_id |-> runID, expires_at |-> expiresAt,
                                created_at |-> t])
    IN  [token |-> <<Base64Encode(payload), HexEncode(Hmac(ForeignKey, payload))>>,
         expires_at |-> expiresAt]

\* auth.GenerateToken at instant t: the token and its expiry (its two
\* successive time.Now() readings, for expiresAt and CreatedAt, taken as one)
GenerateToken(runID, t) ==
    LET expiresAt == t + TokenLifetimeHours * Hour
        tokenData == [run_id |-> runID, expires_at |-> expiresAt,
                      created_at |-> t]
        payload == JsonMarshal(tokenData)
        signature == Hmac(secretKey, payload)
    IN  [token |-> <<Base64Encode(payload), HexEncode(signature)>>,
         expires_at |-> expiresAt]

\* ValidateToken had it not compared the payload's run id
ValidateTokenAnyRun(token, runID, t) ==
    LET payload == Base64Decode(token[1])
        signature == HexDecode(token[2])
        parsed == JsonUnmarshal(payload.bytes)
        Reject(why) == [valid |-> FALSE, err |-> why]
    IN  IF Len(token) # 2 THEN Reject("invalid token format")
        ELSE IF ~payload.ok THEN Reject("failed to decode payload")
        ELSE IF ~signature.ok THEN Reject("failed to decode signature")
        ELSE IF signature.sig # Hmac(secretKey, payload.bytes)
             THEN Reject("invalid signature")
        ELSE IF ~parsed.ok THEN Reject("failed to unmarshal token data")
        ELSE IF t > parsed.tokenData.expires_at THEN Reject("token has expired")
        ELSE [valid |-> TRUE, err |-> ""]

\* ValidateToken had it rejected a token at the instant of its expiry
ValidateTokenExpiringEarly(token, runID, t) ==
    LET payload == Base64Decode(token[1])
        signature == HexDecode(token[2])
        parsed == JsonUnmarshal(payload.bytes)
        Reject(why) == [valid |-> FALSE, err |-> why]
    IN  IF Len(token) # 2 THEN Reject("invalid token format")
        ELSE IF ~payload.ok THEN Reject("failed to decode payload")
        ELSE IF ~signature.ok THEN Reject("failed to decode signature")
        ELSE IF signature.sig # Hmac(secretKey, payload.bytes)
             THEN Reject("invalid signature")
        ELSE IF ~parsed.ok THEN Reject("failed to unmarshal token data")
        ELSE IF t >= parsed.tokenData.expires_at THEN Reject("token has expired")
        ELSE IF parsed.tokenData.run_id # runID THEN Reject("token run_id mismatch")
        ELSE [valid |-> TRUE, err |-> ""]

\* ValidateToken had it read the payload's expiry before verifying the signature
ValidateTokenExpiryFirst(token, runID, t) ==
    LET payload == Base64Decode(token[1])
        signature == HexDecode(token[2])
        parsed == JsonUnmarshal(payload.bytes)
        Reject(why) == [valid |-> FALSE, err |-> why]
    IN  IF Len(token) # 2 THEN Reject("invalid token format")
        ELSE IF ~payload.ok THEN Reject("failed to decode payload")
        ELSE IF ~signature.ok THEN Reject("failed to decode signature")
        ELSE IF ~parsed.ok THEN Reject("failed to unmarshal token data")
        ELSE IF t > parsed.tokenData.expires_at THEN Reject("token has expired")
        ELSE IF signature.sig # Hmac(secretKey, payload.bytes)
             THEN Reject("invalid signature")
        ELSE IF parsed.tokenData.run_id # runID THEN Reject("token run_id mismatch")
        ELSE [valid |-> TRUE, err |-> ""]

\* auth.ValidateToken at instant t: (valid, err), err = "" for nil
ValidateToken(token, runID, t) ==
    LET parts == token
        payload == Base64Decode(parts[1])
        signature == HexDecode(parts[2])
        expectedSignature == Hmac(secretKey, payload.bytes)
        parsed == JsonUnmarshal(payload.bytes)
        tokenData == parsed.tokenData
        Reject(why) == [valid |-> FALSE, err |-> why]
    IN  IF Len(parts) # 2 THEN Reject("invalid token format")
        ELSE IF ~payload.ok THEN Reject("failed to decode payload")
        ELSE IF ~signature.ok THEN Reject("failed to decode signature")
        ELSE IF signature.sig # expectedSignature THEN Reject("invalid signature")
        ELSE IF ~parsed.ok THEN Reject("failed to unmarshal token data")
        ELSE IF t > tokenData.expires_at THEN Reject("token has expired")
        ELSE IF tokenData.run_id # runID THEN Reject("token run_id mismatch")
        ELSE [valid |-> TRUE, err |-> ""]

\* before any ValidateToken call
NotChecked ==
    [made |-> FALSE, token |-> <<>>, run_id |-> "", at |-> ZeroTime,
     res |-> [valid |-> FALSE, err |-> ""]]

(***************************************************************************)
(* Storage (internal/storage).  The "runs" collection is a function from   *)
(* the ids of the documents that exist to their contents.                  *)
(***************************************************************************)
\* the models.RunDoc StoreSamples builds when the document does not exist
NewRunDoc(runID, t) ==
    [id |-> runID, run_id |-> runID, start_time |-> t, end_time |-> ZeroTime,
     created_at |-> t, updated_at |-> ZeroTime, updated_at_timestamp |-> 0,
     samples |-> <<>>, process_info |-> <<>>,
     finished |-> FALSE, finished_at |-> ZeroTime]

\* Go's zero models.RunDoc: a handler's runDoc variable before it is assigned
ZeroRunDoc == NewRunDoc("", ZeroTime)

\* an IngestRequest whose ProcessInfo pointer is nil
NoProcessInfo == [given |-> FALSE, pid |-> "", name |-> "", vm_flags |-> <<>>]

\* StoreProcessInfo between its Get and its Set: one entry merged into the
\* document's process-metadata map under the process's pid
StoreProcessInfoRunDoc(runDoc, info) ==
    LET stored == runDoc.process_info
    IN  [runDoc EXCEPT !.process_info =
           [pid \in DOMAIN stored \cup {info.pid} |->
              IF pid = info.pid THEN info ELSE stored[pid]]]

\* DocumentRef.Set had it kept the samples already stored and added the
\* written ones after them
DocSetKeepingStored(coll, runID, runDoc) ==
    [r \in DOMAIN coll \cup {runID} |->
        IF r # runID THEN coll[r]
        ELSE IF runID \in DOMAIN coll
        THEN [runDoc EXCEPT !.samples = coll[runID].samples \o @]
        ELSE runDoc]

\* DocumentRef.Set: the whole document is replaced by the struct written
DocSet(coll, runID, runDoc) ==
    [r \in DOMAIN coll \cup {runID} |-> IF r = runID THEN runDoc ELSE coll[r]]

\* StoreSamples had it put the new samples before the ones read
StoreSamplesPrepending(coll, runID, samples, t) ==
    LET runDoc == IF runID \in DOMAIN coll THEN coll[runID]
                  ELSE NewRunDoc(runID, t)
    IN  [runDoc EXCEPT !.samples = samples \o @,
                       !.updated_at = t,
                       !.updated_at_timestamp = ToMillis(t)]

\* StoreSamples had it returned before its Set on an empty batch for a run
\* that exists
StoreSamplesIgnoringEmpty(coll, runID, samples, t) ==
    LET runDoc == IF runID \in DOMAIN coll THEN coll[runID]
                  ELSE NewRunDoc(runID, t)
    IN  IF samples = <<>> /\ runID \in DOMAIN coll THEN runDoc
        ELSE [runDoc EXCEPT !.samples = @ \o samples,
                            !.updated_at = t,
                            !.updated_at_timestamp = ToMillis(t)]

\* StoreSamples had it written every document as one still running
StoreSamplesReopening(coll, runID, samples, t) ==
    LET runDoc == IF runID \in DOMAIN coll THEN coll[runID]
                  ELSE NewRunDoc(runID, t)
    IN  [runDoc EXCEPT !.samples = @ \o samples,
                       !.finished = FALSE,
                       !.finished_at = ZeroTime,
                       !.updated_at = t,
                       !.updated_at_timestamp = ToMillis(t)]

\* StoreSamples between its Get and its Set: the document read (or a new one),
\* the samples appended and both update fields set from one time.Now()
StoreSamplesRunDoc(coll, runID, samples, t) ==
    LET runDoc == IF runID \in DOMAIN coll THEN coll[runID]
                  ELSE NewRunDoc(runID, t)
    IN  [runDoc EXCEPT !.samples = @ \o samples,
                       !.updated_at = t,
                       !.updated_at_timestamp = ToMillis(t)]

\* MarkRunAsFinished had it no early return
NeverFinished(runDoc) == FALSE

\* MarkRunAsFinished's early return: "If already finished, nothing to do"
AlreadyFinished(runDoc) == runDoc.finished

\* MarkRunAsFinished refreshing updated_at and leaving the flag
MarkRefreshedRunDoc(runDoc, t) ==
    [runDoc EXCEPT !.updated_at = t,
                   !.updated_at_timestamp = ToMillis(t)]

\* MarkRunAsFinished had it written the finished document without its
\* samples
MarkFinishedDroppingSamples(runDoc, t) ==
    [runDoc EXCEPT !.samples = <<>>,
                   !.finished = TRUE,
                   !.finished_at = t,
                   !.updated_at = t,
                   !.updated_at_timestamp = ToMillis(t)]

\* MarkRunAsFinished between its Get and its Set
MarkFinishedRunDoc(runDoc, t) ==
    [runDoc EXCEPT !.finished = TRUE,
                   !.finished_at = t,
                   !.updated_at = t,
                   !.updated_at_timestamp = ToMillis(t)]

\* JavaScript's new Date(): the clock at millisecond precision
DateNow(t) == ToMillis(t) * Millisecond

\* cleanup.ts markProcessAsFinishedDirect: docRef.update of three fields
DirectFinishUpdate(runDoc, t) ==
    [runDoc EXCEPT !.finished = TRUE,
                   !.finished_at = DateNow(t),
                   !.updated_at = DateNow(t)]

\* the order Firestore lists document ids in
RunIdOrder == <<"r1", "r2">>

\* storage.FindStaleRuns at instant t: the ids, in listing order, of the
\* documents that are not finished and whose time.Since(UpdatedAt) exceeds
\* the timeout
FindStaleRunsInclusive(coll, t, timeout) ==
    LET Stale(r) == /\ r \in DOMAIN coll
                    /\ ~coll[r].finished
                    /\ t - coll[r].updated_at >= timeout
    IN  SelectSeq(RunIdOrder, Stale)

FindStaleRuns(coll, t, timeout) ==
    LET Stale(r) == /\ r \in DOMAIN coll
                    /\ ~coll[r].finished
                    /\ t - coll[r].updated_at > timeout
    IN  SelectSeq(RunIdOrder, Stale)

\* DeleteOldRuns: cutoffTimestamp := ToMillis(time.Now().Add(-retentionPeriod))
CutoffTimestampRoundedUp(t, retentionPeriod) ==
    ToMillis(t - retentionPeriod) + 1

CutoffTimestamp(t, retentionPeriod) == ToMillis(t - retentionPeriod)

\* DeleteOldRuns' range query Where("updated_at_timestamp", "<", cutoff): the
\* matching ids in the order of the query, by the field and then by id
RECURSIVE OldRunsQuery(_, _, _)
OldRunsQuery(coll, ids, cutoffTimestamp) ==
    LET match == {r \in ids \cap DOMAIN coll :
                    coll[r].updated_at_timestamp < cutoffTimestamp}
        Pos(r) == CHOOSE i \in 1..Len(RunIdOrder) : RunIdOrder[i] = r
        Before(a, b) ==
            \/ coll[a].updated_at_timestamp < coll[b].updated_at_timestamp
            \/ /\ coll[a].updated_at_timestamp = coll[b].updated_at_timestamp
               /\ Pos(a) <= Pos(b)
        first == CHOOSE a \in match : \A b \in match : Before(a, b)
    IN  IF match = {} THEN <<>>
        ELSE <<first>> \o OldRunsQuery(coll, match \ {first}, cutoffTimestamp)

\* DocumentRef.Delete, which succeeds whether or not the document exists
\* a Delete that removes nothing
DocDeleteNothing(coll, runID) == coll

DocDelete(coll, runID) == [r \in DOMAIN coll \ {runID} |-> coll[r]]

(***************************************************************************)
(* storage.ParseData: the payload's lines, each "HH:MM:SS | PID | NAME |   *)
(* HEAP_USED | HEAP_CAP | RSS [| GC_TIME]".                                *)
(***************************************************************************)
MB == <<"M", "B">>
ms == <<"m", "s">>
NA == <<"N", "/", "A">>

\* the body of ParseData's loop for one line: skipped (ok = FALSE) or a sample
ParseLine(rawLine, startTime) ==
    LET line == TrimSpace(rawLine)
        rawParts == Split(line, "|")
        parts == [i \in 1..Len(rawParts) |-> TrimSpace(rawParts[i])]
        timeParts == Split(parts[1], ":")
        hours == Atoi(timeParts[1])
        minutes == Atoi(timeParts[2])
        seconds == Atoi(timeParts[3])
        elapsedTime == hours.val * 3600 + minutes.val * 60 + seconds.val
        heapUsed == ParseFloat(TrimSuffix(TrimSuffix(parts[4], MB), MB))
        heapCap == ParseFloat(TrimSuffix(TrimSuffix(parts[5], MB), MB))
        rss == ParseFloat(TrimSuffix(TrimSuffix(parts[6], MB), MB))
        gcTimeStr == TrimSuffix(TrimSuffix(parts[7], ms), ms)
        gcTimeFloat == ParseFloat(gcTimeStr)
        gcTime == IF Len(parts) = 7 /\ gcTimeStr # NA /\ gcTimeStr # <<>>
                     /\ gcTimeFloat.ok
                  THEN gcTimeFloat.val ELSE 0
        timestamp == startTime + elapsedTime * Second
        Skip == [ok |-> FALSE, sample |-> <<>>]
    IN  IF line = <<>> THEN Skip
        ELSE IF Len(parts) # 6 /\ Len(parts) # 7 THEN Skip
        ELSE IF Len(timeParts) # 3 THEN Skip
        ELSE IF ~hours.ok \/ ~minutes.ok \/ ~seconds.ok THEN Skip
        ELSE IF ~heapUsed.ok THEN Skip
        ELSE IF ~heapCap.ok THEN Skip
        ELSE IF ~rss.ok THEN Skip
        ELSE [ok |-> TRUE,
              sample |-> <<[timestamp |-> ToMillis(timestamp),
                            elapsed_time |-> elapsedTime,
                            pid |-> parts[2], name |-> parts[3],
                            heap_used |-> heapUsed.val, heap_cap |-> heapCap.val,
                            rss |-> rss.val, gc_time |-> gcTime,
                            run_id |-> ""]>>]

\* ParseData had it stopped at the first malformed line
RECURSIVE ParseLinesUntilMalformed(_, _)
ParseLinesUntilMalformed(lines, startTime) ==
    IF lines = <<>> \/ ~ParseLine(Head(lines), startTime).ok THEN <<>>
    ELSE ParseLine(Head(lines), startTime).sample
         \o ParseLinesUntilMalformed(Tail(lines), startTime)

\* ParseData's loop over the lines
RECURSIVE ParseLines(_, _)
ParseLines(lines, startTime) ==
    IF lines = <<>> THEN <<>>
    ELSE ParseLine(Head(lines), startTime).sample
         \o ParseLines(Tail(lines), startTime)

\* storage.ParseData: the samples of the well-formed lines, in line order
ParseData(data, startTime) ==
    ParseLines(Split(TrimSpace(data), "\n"), startTime)

(***************************************************************************)
(* State.                                                                  *)
(***************************************************************************)
VARIABLES
    now,       \* the wall clock, in ticks
    runs,      \* the Firestore "runs" collection
    ver,       \* history: how many writes each document id has received
    proc,      \* the request each handler goroutine is serving, and where
    started,   \* requests made so far
    tokens,    \* the /auth/run response each run's producer holds
    checked,   \* history: the latest ValidateToken call and what it returned
    sweep,     \* the cleanup sweeps: the two loops and the two manual handlers
    due,       \* whether each loop's ticker holds a tick not yet received
    sweeps,    \* sweeps begun so far
    sending,   \* the producer's send_to_backend call and its AUTH_TOKEN
    cleanups   \* the cleanup program's invocations and the lock file

vars ==
    <<now, runs, ver, proc, started, tokens, checked, sweep, due, sweeps,
      sending, cleanups>>

\* net/http status codes the handlers answer with
StatusOK == 200
StatusBadRequest == 400
StatusUnauthorized == 401
StatusMethodNotAllowed == 405
StatusInternalServerError == 500
\* no answer written yet
NoStatus == 0

\* a goroutine that serves no request
IdleProc ==
    [pc |-> "idle", op |-> "none", run_id |-> "",
     startTime |-> ZeroTime, samples |-> <<>>, runDoc |-> ZeroRunDoc,
     rver |-> 0, wver |-> 0, reached_auth |-> FALSE, authed |-> FALSE,
     info |-> NoProcessInfo, pi |-> "none", data |-> <<>>,
     method |-> "", status |-> NoStatus]

(***************************************************************************)
(* Requests a client may send.                                             *)
(***************************************************************************)
\* one space-separated word of an Authorization header: a literal or a token
Word(text) == [lit |-> text, tok |-> <<TextPart>>]
TokenWord(token) == [lit |-> "", tok |-> token]

OtherRun(r) == CHOOSE o \in RunIds : o # r

\* tokens presented at instant t: issued by the server for either run (just
\* now, one lifetime ago, one tick more than a lifetime ago), signed with a
\* key that is not the server's, a genuine signature moved onto another
\* payload, and strings that are not tokens
TokenInputs(t) ==
    LET issued == {GenerateToken(r, t0).token :
                     r \in RunIds,
                     t0 \in {t, t - TokenLifetimeHours * Hour,
                             t - TokenLifetimeHours * Hour - 1}}
        forged == {<<tk[1], HexEncode(Hmac(ForeignKey, tk[1].bytes))>> :
                     tk \in {GenerateToken(r, t).token : r \in RunIds}}
        moved == {<<GenerateToken(r, t).token[1],
                    GenerateToken(OtherRun(r), t).token[2]>> : r \in RunIds}
        malformed == {<<TextPart>>, <<TextPart, TextPart>>,
                      <<GenerateToken("r1", t).token[1], TextPart>>,
                      GenerateToken("r1", t).token \o <<TextPart>>}
    IN  issued \cup forged \cup moved \cup malformed

\* Authorization headers: absent, one word, a wrong scheme, three words, and
\* "Bearer <token>" for every token above
AuthHeaders(t) ==
    {<<>>, <<Word("Bearer")>>,
     <<Word("Basic"), TokenWord(GenerateToken("r1", t).token)>>,
     <<Word("Bearer"), TokenWord(GenerateToken("r1", t).token), Word("x")>>}
    \cup {<<Word("Bearer"), TokenWord(tk)>> : tk \in TokenInputs(t)}

Sep == <<" ", "|", " ">>
\* "00:00:01 | 7 | G | 1MB | 2MB | 3MB"
Line1 ==
    <<"0", "0", ":", "0", "0", ":", "0", "1">> \o Sep \o <<"7">> \o Sep
    \o <<"G">> \o Sep \o <<"1">> \o MB \o Sep \o <<"2">> \o MB \o Sep
    \o <<"3">> \o MB
\* "00:01:30 | 8 | K | 4MB | 5MB | 6MB | 9ms"
Line2 ==
    <<"0", "0", ":", "0", "1", ":", "3", "0">> \o Sep \o <<"8">> \o Sep
    \o <<"K">> \o Sep \o <<"4">> \o MB \o Sep \o <<"5">> \o MB \o Sep
    \o <<"6">> \o MB \o Sep \o <<"9">> \o ms
\* "x | y": too few columns
BadLine == <<"x">> \o Sep \o <<"y">>

\* ingest payloads: one line, a good line after a malformed one, no good line
DataInputs == {Line1, BadLine \o <<"\n">> \o Line2 \o <<"\n">>}

\* "Bearer <token>" with a token the server has just issued for run r
GoodAuth(r, t) == <<Word("Bearer"), TokenWord(GenerateToken(r, t).token)>>

\* POST /ingest with a valid token: every payload for run r1, one for run r2
GoodIngestRequests(t) ==
    LET Post(r, d) == [method |-> "POST", body_ok |-> TRUE,
                       auth |-> GoodAuth(r, t), run_id |-> r, data |-> d,
                       process_info |-> NoProcessInfo]
    IN  {Post("r1", d) : d \in DataInputs} \cup {Post("r2", Line1)}

\* the same request with its method, its body, its Authorization header or
\* its fields changed
BadIngestRequests(t) ==
    LET good(r) == GoodAuth(r, t)
        base == [method |-> "POST", body_ok |-> TRUE, auth |-> good("r1"),
                 run_id |-> "r1", data |-> Line1,
                 process_info |-> NoProcessInfo]
    IN  {[base EXCEPT !.method = m] : m \in {"GET", "OPTIONS"}}
        \cup {[base EXCEPT !.body_ok = FALSE, !.run_id = "", !.data = <<>>,
                           !.auth = h] : h \in {<<>>, good("r1")}}
        \cup {[base EXCEPT !.auth = h, !.run_id = r] :
                 h \in AuthHeaders(t), r \in RunIds}
        \cup {[base EXCEPT !.data = <<>>],
              [base EXCEPT !.run_id = "", !.auth = good("")]}

\* POST /finish/{id} with a valid token; run_id is the path after "/finish/"
GoodFinishRequests(t) ==
    {[method |-> "POST", auth |-> GoodAuth(r, t), run_id |-> r] : r \in RunIds}

BadFinishRequests(t) ==
    LET good(r) == GoodAuth(r, t)
        base == [method |-> "POST", auth |-> good("r1"), run_id |-> "r1"]
    IN  {[base EXCEPT !.method = m] : m \in {"GET", "OPTIONS"}}
        \cup {[base EXCEPT !.auth = h, !.run_id = r] :
                 h \in AuthHeaders(t), r \in RunIds}
        \cup {[base EXCEPT !.run_id = "", !.auth = h] : h \in {<<>>, good("")}}

(***************************************************************************)
(* Handlers (internal/handlers).                                           *)
(***************************************************************************)
\* the Authorization check had it not compared the scheme with "Bearer"
BearerStatusAnyScheme(authHeader, runID, t) ==
    IF authHeader = <<>> THEN StatusUnauthorized
    ELSE IF Len(authHeader) # 2 THEN StatusUnauthorized
    ELSE LET v == ValidateToken(authHeader[2].tok, runID, t)
         IN  IF v.err # "" THEN StatusUnauthorized
             ELSE IF ~v.valid THEN StatusUnauthorized
             ELSE NoStatus

\* the Authorization check of Ingest and FinishRun: 401, or NoStatus to go on
BearerStatus(authHeader, runID, t) ==
    IF authHeader = <<>> THEN StatusUnauthorized
    ELSE IF Len(authHeader) # 2 \/ authHeader[1].lit # "Bearer"
         THEN StatusUnauthorized
    ELSE LET v == ValidateToken(authHeader[2].tok, runID, t)
         IN  IF v.err # "" THEN StatusUnauthorized
             ELSE IF ~v.valid THEN StatusUnauthorized
             ELSE NoStatus

\* Handlers.Ingest up to its first storage call: the status it answers with,
\* or NoStatus when it goes on to GetRun
IngestStatus(req, t) ==
    IF req.method = "OPTIONS" THEN StatusOK
    ELSE IF req.method # "POST" THEN StatusMethodNotAllowed
    ELSE IF ~req.body_ok THEN StatusBadRequest
    ELSE IF BearerStatus(req.auth, req.run_id, t) # NoStatus
         THEN BearerStatus(req.auth, req.run_id, t)
    ELSE IF req.run_id = "" \/ req.data = <<>> THEN StatusBadRequest
    ELSE NoStatus

\* Handlers.FinishRun up to MarkRunAsFinished
FinishStatus(req, t) ==
    IF req.method = "OPTIONS" THEN StatusOK
    ELSE IF req.method # "POST" THEN StatusMethodNotAllowed
    ELSE IF req.run_id = "" THEN StatusBadRequest
    ELSE BearerStatus(req.auth, req.run_id, t)

\* history: the request carries "Bearer <token>" with a token ValidateToken
\* accepts for runID at instant t
BearsValidToken(authHeader, runID, t) ==
    /\ Len(authHeader) = 2
    /\ authHeader[1].lit = "Bearer"
    /\ ValidateToken(authHeader[2].tok, runID, t).valid

Free(p) == proc[p].pc \in {"idle", "done"}
Accepting(p) ==
    /\ started < MaxRequests
    /\ Free(p)
    /\ \A q \in Procs : q < p => ~Free(q)

\* what a request leaves behind when its handler returns before StoreSamples
\* or MarkRunAsFinished has computed anything
Answered(p, status) ==
    [IdleProc EXCEPT !.pc = "done", !.op = proc[p].op,
                     !.run_id = proc[p].run_id,
                     !.reached_auth = proc[p].reached_auth,
                     !.authed = proc[p].authed,
                     !.info = proc[p].info,
                     !.pi = proc[p].pi,
                     !.method = proc[p].method,
                     !.status = status]

\* Handlers.Ingest from the request's arrival to the return of GetRun and
\* ParseData (the run's StartTime, or time.Now() for a run that is not
\* found); getRunFails: GetRun returns an error other than "not found"
IngestRequest(p, requests, getRunFails) ==
    /\ Accepting(p)
    /\ \E req \in requests :
         LET st == IngestStatus(req, now)
             id == req.run_id
             seen == [IdleProc EXCEPT
                        !.op = "ingest",
                        !.method = req.method,
                        !.info = req.process_info,
                        !.reached_auth = req.method = "POST" /\ req.body_ok,
                        !.authed = BearsValidToken(req.auth, req.run_id, now)]
             startTime == IF id \in DOMAIN runs THEN runs[id].start_time ELSE now
         IN  proc' = [proc EXCEPT ![p] =
                        IF st # NoStatus
                        THEN [seen EXCEPT !.pc = "done", !.status = st]
                        ELSE IF getRunFails
                        THEN [seen EXCEPT !.pc = "done", !.run_id = id,
                                          !.status = StatusInternalServerError]
                        ELSE [seen EXCEPT !.pc = "ss_read", !.run_id = id,
                                          !.startTime = startTime,
                                          !.data = req.data,
                                          !.samples = ParseData(req.data, startTime)]]
    /\ started' = started + 1
    /\ UNCHANGED <<tokens, checked, sweep, due, sweeps, now, runs, ver, sending, cleanups>>

\* StoreSamples: doc.Get and the new contents computed from it
StoreSamplesRead(p) ==
    /\ proc[p].pc = "ss_read"
    /\ LET id == proc[p].run_id
       IN  proc' = [proc EXCEPT
                      ![p].pc = "ss_write",
                      ![p].runDoc = StoreSamplesRunDoc(runs, id, proc[p].samples, now),
                      ![p].rver = ver[id]]
    /\ UNCHANGED <<tokens, checked, sweep, due, sweeps, now, runs, ver, started, sending, cleanups>>

\* StoreSamples: doc.Set; then Ingest's answer, or its call of
\* StoreProcessInfo when the request carries process_info
StoreSamplesWrite(p) ==
    /\ proc[p].pc = "ss_write"
    /\ LET id == proc[p].run_id
       IN  /\ runs' = DocSet(runs, id, proc[p].runDoc)
           /\ ver' = [ver EXCEPT ![id] = @ + 1]
           /\ proc' = [proc EXCEPT
                          ![p].pc = IF proc[p].info.given THEN "pi_read"
                                    ELSE "done",
                          ![p].startTime = ZeroTime,
                          ![p].wver = ver[id] + 1,
                          ![p].status = IF proc[p].info.given THEN NoStatus
                                        ELSE StatusOK]
    /\ UNCHANGED <<tokens, checked, sweep, due, sweeps, now, started, sending, cleanups>>

\* Ingest had it answered a StoreProcessInfo error as it answers a
\* StoreSamples error
InfoFailureFatal(p) ==
    [Answered(p, StatusInternalServerError) EXCEPT !.pi = "failed"]

\* Ingest on a StoreProcessInfo error: the error is logged and the handler
\* goes on to its 200 answer
InfoFailureLogged(p) ==
    [proc[p] EXCEPT !.pc = "done", !.pi = "failed", !.status = StatusOK]

\* StoreProcessInfo to the return of its doc.Get: an error, or the new
\* contents
StoreProcessInfoRead(p, getFails) ==
    /\ proc[p].pc = "pi_read"
    /\ LET id == proc[p].run_id
       IN  proc' = [proc EXCEPT ![p] =
             IF getFails \/ id \notin DOMAIN runs
             THEN InfoFailureLogged(p)
             ELSE [@ EXCEPT !.pc = "pi_write", !.pi = "tried",
                            !.runDoc = StoreProcessInfoRunDoc(runs[id],
                                                              proc[p].info)]]
    /\ UNCHANGED <<tokens, checked, sweep, due, sweeps, now, runs, ver, started, sending, cleanups>>

\* StoreProcessInfo: its doc.Set, and Ingest's answer, 200 whether the Set
\* failed or not
StoreProcessInfoWrite(p, setFails) ==
    /\ proc[p].pc = "pi_write"
    /\ LET id == proc[p].run_id
       IN  IF setFails
           THEN /\ proc' = [proc EXCEPT ![p] = InfoFailureLogged(p)]
                /\ UNCHANGED <<runs, ver>>
           ELSE /\ runs' = DocSet(runs, id, proc[p].runDoc)
                /\ ver' = [ver EXCEPT ![id] = @ + 1]
                /\ proc' = [proc EXCEPT ![p].pc = "done", ![p].pi = "stored",
                                        ![p].status = StatusOK]
    /\ UNCHANGED <<tokens, checked, sweep, due, sweeps, now, started, sending, cleanups>>

\* the body Ingest answers 200 with: the number of samples ParseData returned
IngestResponse(p) ==
    [status |-> "success", samples |-> Len(proc[p].samples)]

\* Handlers.FinishRun from the request's arrival to the return of
\* MarkRunAsFinished's doc.Get: the not-found and already-finished returns, or
\* the new contents
FinishRequest(p, requests) ==
    /\ Accepting(p)
    /\ \E req \in requests :
         LET st == FinishStatus(req, now)
             id == req.run_id
             seen == [IdleProc EXCEPT
                        !.op = "finish",
                        !.method = req.method,
                        !.reached_auth = req.method = "POST" /\ req.run_id # "",
                        !.authed = BearsValidToken(req.auth, req.run_id, now)]
         IN  proc' = [proc EXCEPT ![p] =
                        IF st # NoStatus
                        THEN [seen EXCEPT !.pc = "done", !.status = st]
                        ELSE IF id \notin DOMAIN runs
                        THEN [seen EXCEPT !.pc = "done", !.run_id = id,
                                          !.rver = ver[id],
                                          !.status = StatusInternalServerError]
                        ELSE IF AlreadyFinished(runs[id])
                        THEN [seen EXCEPT !.pc = "done", !.run_id = id,
                                          !.runDoc = runs[id],
                                          !.rver = ver[id],
                                          !.status = StatusOK]
                        ELSE [seen EXCEPT !.pc = "mf_write", !.run_id = id,
                                          !.runDoc = MarkFinishedRunDoc(runs[id], now),
                                          !.rver = ver[id]]]
    /\ started' = started + 1
    /\ UNCHANGED <<tokens, checked, sweep, due, sweeps, now, runs, ver, sending, cleanups>>

\* MarkRunAsFinished: doc.Set, and FinishRun's answer
MarkFinishedWrite(p) ==
    /\ proc[p].pc = "mf_write"
    /\ LET id == proc[p].run_id
       IN  /\ runs' = DocSet(runs, id, proc[p].runDoc)
           /\ ver' = [ver EXCEPT ![id] = @ + 1]
           /\ proc' = [proc EXCEPT ![p].pc = "done",
                                   ![p].wver = ver[id] + 1,
                                   ![p].status = StatusOK]
    /\ UNCHANGED <<tokens, checked, sweep, due, sweeps, now, started, sending, cleanups>>

\* a doc.Get or doc.Set of StoreSamples, or the doc.Set of MarkRunAsFinished,
\* fails: the handler answers 500 and nothing is stored
StorageError(p) ==
    /\ proc[p].pc \in {"ss_read", "ss_write", "mf_write"}
    /\ proc' = [proc EXCEPT ![p] = Answered(p, StatusInternalServerError)]
    /\ UNCHANGED <<tokens, checked, sweep, due, sweeps, now, runs, ver, started, sending, cleanups>>

\* the producer's cleanup program updates the run's document directly
DirectFinish(r) ==
    /\ started < MaxRequests
    /\ r \in DOMAIN runs
    /\ runs' = [runs EXCEPT ![r] = DirectFinishUpdate(runs[r], now)]
    /\ ver' = [ver EXCEPT ![r] = @ + 1]
    /\ started' = started + 1
    /\ UNCHANGED <<tokens, checked, sweep, due, sweeps, now, proc, sending, cleanups>>

\* time passes
Advance ==
    /\ now < BootTime + MaxTime
    /\ now' = now + 1
    /\ UNCHANGED <<tokens, checked, sweep, due, sweeps, runs, ver, proc, started, sending, cleanups>>

(***************************************************************************)
(* Token issuance and validation over hours of wall-clock time.            *)
(***************************************************************************)
\* Handlers.Auth, GET /auth/run/{id}: the TokenResponse the run's producer
\* receives and keeps in place of the token it held; run_id and created_at
\* are history, the run asked for and the instant GenerateToken read the clock
AuthRun(r) ==
    /\ LET g == GenerateToken(r, now)
       IN  tokens' = {k \in tokens : k.run_id # r}
                     \cup {[token |-> g.token, expires_at |-> g.expires_at,
                             run_id |-> r, created_at |-> now]}
    /\ UNCHANGED <<now, runs, ver, proc, started, checked, sweep, due, sweeps, sending, cleanups>>

\* token strings a client may present: the ones it was issued, each re-signed
\* with a key that is not the server's, each payload under the signature of
\* another token, an invented payload under a foreign signature, and strings
\* that are not two parts of base64 and hex
Presented ==
    LET held == {k.token : k \in tokens}
        forged == {<<tk[1], HexEncode(Hmac(ForeignKey, tk[1].bytes))>> : tk \in held}
        moved == {<<tk[1], other[2]>> : tk \in held, other \in held}
        invented == JsonMarshal([run_id |-> "r1", expires_at |-> now + Hour,
                                 created_at |-> now])
        malformed == {<<TextPart>>, <<TextPart, TextPart>>,
                      <<Base64Encode(invented), TextPart>>,
                      <<Base64Encode(invented),
                        HexEncode(Hmac(ForeignKey, invented))>>,
                      <<Base64Encode(NoBytes), HexEncode(Hmac(secretKey, NoBytes))>>}
                     \cup {tk \o <<TextPart>> : tk \in held}
    IN  held \cup forged \cup moved \cup malformed

\* a call of auth.ValidateToken
Validate(runID) ==
    /\ \E token \in Presented :
         checked' = [made |-> TRUE, token |-> token, run_id |-> runID, at |-> now,
                     res |-> ValidateToken(token, runID, now)]
    /\ UNCHANGED <<now, runs, ver, proc, started, tokens, sweep, due, sweeps, sending, cleanups>>

\* time passes: a tick or an hour
Elapse(d) ==
    /\ d = 1 => (now - BootTime) % Hour < MaxTime
    /\ d = Hour => (now - BootTime) \div Hour < MaxHours
    /\ now' = now + d
    /\ UNCHANGED <<runs, ver, proc, started, tokens, checked, sweep, due, sweeps, sending, cleanups>>

(***************************************************************************)
(* Cleanup (internal/cleanup): the stale sweep and the retention sweep,    *)
(* each run by a background loop on a ticker and by an admin handler.      *)
(***************************************************************************)
\* a stale timeout longer than the retention period
BuildTimeoutBeyondRetention == 4 * Hour

BuildTimeout == 5 * Minute
DataRetentionPeriod == 3 * Hour
\* time.NewTicker(2 * time.Minute) and time.NewTicker(30 * time.Minute)
StaleTickPeriod == 2 * Minute
RetentionTickPeriod == 30 * Minute

\* auth.adminSecret, loaded once by Initialize
adminSecret == "admin-dev-secret-change-me"

\* RequireAdminAuth had it asked only for a header
RequireAdminAuthAnySecret(providedSecret) == providedSecret # ""

\* auth.RequireAdminAuth on the request's X-Admin-Secret header
RequireAdminAuth(providedSecret) ==
    IF providedSecret = "" THEN FALSE ELSE providedSecret = adminSecret

StaleSweepers == {"staleLoop", "staleManual"}
OldSweepers == {"oldLoop", "oldManual"}
Sweepers == StaleSweepers \cup OldSweepers

\* a sweeper that has not run.  found: the ids FindStaleRuns returned or the
\* range query matched; i: the one being handled; cleaned: cleanedRuns or
\* deletedRuns.  History: at and base, the clock and the collection the
\* ids were read from; ver0, the documents' write counts then; failed, the
\* ids whose call returned an error; wrote, the ids this sweep wrote.
IdleSweep ==
    [pc |-> "idle", at |-> ZeroTime, base |-> <<>>,
     ver0 |-> [r \in RunIds |-> 0], found |-> <<>>, i |-> 0,
     runDoc |-> ZeroRunDoc, cleaned |-> <<>>, failed |-> <<>>, wrote |-> {},
     err |-> FALSE, method |-> "", secret |-> "", status |-> NoStatus]

SweepFree(s) == sweep[s].pc \in {"idle", "done"}

\* a sweep begun at this instant with the ids it is to handle
BegunSweep(found, first) ==
    [IdleSweep EXCEPT !.pc = IF found = <<>> THEN "done" ELSE first,
                      !.at = now, !.base = runs, !.ver0 = ver,
                      !.found = found, !.i = 1]

\* requests to the two admin routes: a method and an X-Admin-Secret header
AdminRequests ==
    {[method |-> m, secret |-> adminSecret] : m \in {"POST", "GET", "OPTIONS"}}
    \cup {[method |-> "POST", secret |-> x] :
            x \in {"", "Admin-Dev-Secret-Change-Me", "other"}}

\* HandleManualStaleCleanup and HandleManualDataRetentionCleanup up to the
\* storage call: the status answered, or NoStatus to go on
AdminStatus(req) ==
    IF req.method = "OPTIONS" THEN StatusOK
    ELSE IF req.method # "POST" THEN StatusMethodNotAllowed
    ELSE IF ~RequireAdminAuth(req.secret) THEN StatusUnauthorized
    ELSE NoStatus

\* the admin's request: a POST with the configured secret
AdminPosts == {req \in AdminRequests : AdminStatus(req) = NoStatus}

\* StartStaleRunCleanup: s.storage.FindStaleRuns(BuildTimeout)
TickStaleFind(coll, t) == FindStaleRuns(coll, t, BuildTimeout)

\* the handler calling FindStaleRuns with the retention period
ManualStaleFindByRetention(coll, t) ==
    FindStaleRuns(coll, t, DataRetentionPeriod)

\* HandleManualStaleCleanup: s.storage.FindStaleRuns(BuildTimeout)
ManualStaleFind(coll, t) == FindStaleRuns(coll, t, BuildTimeout)

\* StartDataRetentionCleanup: the documents DeleteOldRuns(DataRetentionPeriod)
\* is to delete
TickOldQuery(coll, t) ==
    OldRunsQuery(coll, DOMAIN coll, CutoffTimestamp(t, DataRetentionPeriod))

\* HandleManualDataRetentionCleanup: the same call
ManualOldQuery(coll, t) ==
    OldRunsQuery(coll, DOMAIN coll, CutoffTimestamp(t, DataRetentionPeriod))

\* Handlers.GetRun for GET /runs/{runID}: what it answers from the stored
\* document
GetRunResponse(coll, runID) ==
    IF runID \notin DOMAIN coll
    THEN [status |-> StatusInternalServerError, finished |-> FALSE,
          samples |-> <<>>]
    ELSE [status |-> StatusOK, finished |-> coll[runID].finished,
          samples |-> coll[runID].samples]

\* StartStaleRunCleanup receives a tick and calls FindStaleRuns; on an error
\* it logs and waits for the next tick
StaleTick(findFails) ==
    /\ due.stale
    /\ SweepFree("staleLoop")
    /\ sweep' = [sweep EXCEPT !["staleLoop"] =
                   IF findFails
                   THEN [BegunSweep(<<>>, "done") EXCEPT !.err = TRUE]
                   ELSE BegunSweep(TickStaleFind(runs, now), "mark_read")]
    /\ due' = [due EXCEPT !.stale = FALSE]
    /\ UNCHANGED <<now, runs, ver, proc, started, tokens, checked, sending, cleanups>>

\* HandleManualStaleCleanup from the request's arrival to the return of
\* FindStaleRuns
ManualStale(requests, findFails) ==
    /\ SweepFree("staleManual")
    /\ \E req \in requests :
         LET st == AdminStatus(req)
             begun == BegunSweep(ManualStaleFind(runs, now), "mark_read")
             served ==
                 IF st # NoStatus
                 THEN [IdleSweep EXCEPT !.pc = "done", !.status = st]
                 ELSE IF findFails
                 THEN [BegunSweep(<<>>, "done") EXCEPT
                         !.err = TRUE,
                         !.status = StatusInternalServerError]
                 ELSE [begun EXCEPT
                         !.status = IF begun.pc = "done" THEN StatusOK
                                    ELSE NoStatus]
         IN  sweep' = [sweep EXCEPT !["staleManual"] =
                         [served EXCEPT !.method = req.method,
                                        !.secret = req.secret]]
    /\ UNCHANGED <<now, runs, ver, proc, started, tokens, checked, due, sending, cleanups>>

\* the sweep goes on to its next id, or ends: the loop waits for its next
\* tick, the handler answers 200
NextId(sw, s) ==
    IF sw.i < Len(sw.found)
    THEN [sw EXCEPT !.i = @ + 1, !.runDoc = ZeroRunDoc]
    ELSE [sw EXCEPT !.pc = "done", !.runDoc = ZeroRunDoc,
                    !.status = IF s \in {"staleManual", "oldManual"}
                               THEN StatusOK ELSE NoStatus]

\* the sweep returning at the first id whose call fails
FailedReturning(sw, s, id) ==
    [sw EXCEPT !.failed = Append(@, id), !.pc = "done", !.err = TRUE,
               !.runDoc = ZeroRunDoc,
               !.status = IF s \in {"staleManual", "oldManual"}
                          THEN StatusInternalServerError ELSE NoStatus]

\* MarkRunAsFinished(found[i]) returned an error: it is logged and the range
\* loop goes on
MarkFailed(sw, s, id) ==
    NextId([sw EXCEPT !.pc = "mark_read", !.failed = Append(@, id)], s)

\* doc.Ref.Delete returned an error: it is logged and the loop continues
DeleteFailed(sw, s, id) ==
    NextId([sw EXCEPT !.failed = Append(@, id)], s)

\* MarkRunAsFinished(found[i]) to the return of its doc.Get: an error, the
\* run not found, the run already finished, or the new contents
SweepMarkRead(s, getFails) ==
    /\ sweep[s].pc = "mark_read"
    /\ LET sw == sweep[s]
           id == sw.found[sw.i]
       IN  sweep' = [sweep EXCEPT ![s] =
             IF getFails \/ id \notin DOMAIN runs
             THEN MarkFailed(sw, s, id)
             ELSE IF AlreadyFinished(runs[id])
             THEN NextId([sw EXCEPT !.cleaned = Append(@, id)], s)
             ELSE [sw EXCEPT !.pc = "mark_write",
                             !.runDoc = MarkFinishedRunDoc(runs[id], now)]]
    /\ UNCHANGED <<now, runs, ver, proc, started, tokens, checked, due, sweeps, sending, cleanups>>

\* MarkRunAsFinished(found[i]): its doc.Set
SweepMarkWrite(s, setFails) ==
    /\ sweep[s].pc = "mark_write"
    /\ LET sw == sweep[s]
           id == sw.found[sw.i]
       IN  IF setFails
           THEN /\ sweep' = [sweep EXCEPT ![s] = MarkFailed(sw, s, id)]
                /\ UNCHANGED <<runs, ver>>
           ELSE /\ runs' = DocSet(runs, id, sw.runDoc)
                /\ ver' = [ver EXCEPT ![id] = @ + 1]
                /\ sweep' = [sweep EXCEPT ![s] =
                      NextId([sw EXCEPT !.pc = "mark_read",
                                        !.cleaned = Append(@, id),
                                        !.wrote = @ \cup {id}], s)]
    /\ UNCHANGED <<now, proc, started, tokens, checked, due, sweeps, sending, cleanups>>

\* StartDataRetentionCleanup receives a tick and calls DeleteOldRuns, which
\* computes the cutoff and runs its query
OldTick ==
    /\ due.old
    /\ SweepFree("oldLoop")
    /\ sweep' = [sweep EXCEPT !["oldLoop"] =
                   BegunSweep(TickOldQuery(runs, now), "deleting")]
    /\ due' = [due EXCEPT !.old = FALSE]
    /\ UNCHANGED <<now, runs, ver, proc, started, tokens, checked, sending, cleanups>>

\* HandleManualDataRetentionCleanup from the request's arrival to
\* DeleteOldRuns' query
ManualOld(requests) ==
    /\ SweepFree("oldManual")
    /\ \E req \in requests :
         LET st == AdminStatus(req)
             begun == BegunSweep(ManualOldQuery(runs, now), "deleting")
             served ==
                 IF st # NoStatus
                 THEN [IdleSweep EXCEPT !.pc = "done", !.status = st]
                 ELSE [begun EXCEPT
                         !.status = IF begun.pc = "done" THEN StatusOK
                                    ELSE NoStatus]
         IN  sweep' = [sweep EXCEPT !["oldManual"] =
                         [served EXCEPT !.method = req.method,
                                        !.secret = req.secret]]
    /\ UNCHANGED <<now, runs, ver, proc, started, tokens, checked, due, sending, cleanups>>

\* one round of DeleteOldRuns' loop: iter.Next fails and the call returns
\* what it has deleted with the error; doc.Ref.Delete fails and the loop
\* goes on; or the document is deleted and its id recorded
SweepDelete(s, outcome) ==
    /\ sweep[s].pc = "deleting"
    /\ LET sw == sweep[s]
           id == sw.found[sw.i]
       IN  CASE outcome = "next fails" ->
                  /\ sweep' = [sweep EXCEPT ![s] =
                        [sw EXCEPT !.pc = "done", !.err = TRUE,
                                   !.status = IF s = "oldManual"
                                              THEN StatusInternalServerError
                                              ELSE NoStatus]]
                  /\ UNCHANGED <<runs, ver>>
            [] outcome = "delete fails" ->
                  /\ sweep' = [sweep EXCEPT ![s] = DeleteFailed(sw, s, id)]
                  /\ UNCHANGED <<runs, ver>>
            [] outcome = "deleted" ->
                  /\ runs' = DocDelete(runs, id)
                  /\ ver' = [ver EXCEPT ![id] = @ + 1]
                  /\ sweep' = [sweep EXCEPT ![s] =
                        NextId([sw EXCEPT !.cleaned = Append(@, id),
                                          !.wrote = @ \cup {id}], s)]
    /\ UNCHANGED <<now, proc, started, tokens, checked, due, sweeps, sending, cleanups>>

\* the ticker whose period is given fires between instants t0 and t1
Fires(period, t0, t1) ==
    (t1 - BootTime) \div period > (t0 - BootTime) \div period

\* time passes: a tick, the stale timeout or the retention period; a ticker
\* that fires meanwhile leaves one tick for its loop
Wait(d) ==
    /\ d = 1 => (now - BootTime) % Minute < MaxTime
    /\ d = BuildTimeout
         => ((now - BootTime) % Hour) \div BuildTimeout < MaxWaits
    /\ d = DataRetentionPeriod => (now - BootTime) \div Hour < MaxHours
    /\ \A p \in Procs : Free(p)
    /\ \A s \in Sweepers : SweepFree(s)
    /\ now' = now + d
    /\ due' = [stale |-> due.stale \/ Fires(StaleTickPeriod, now, now'),
               old |-> due.old \/ Fires(RetentionTickPeriod, now, now')]
    /\ UNCHANGED <<runs, ver, proc, started, tokens, checked, sweep, sweeps, sending, cleanups>>

(***************************************************************************)
(* The producer: send_to_backend in the monitor script.  The backend's     *)
(* answers are inputs: the curl exit code and the HTTP code of each POST,  *)
(* and whether each token request succeeds.  A token is the number of the  *)
(* /auth/run answer that carried it; 0 is the empty AUTH_TOKEN.            *)
(***************************************************************************)
MaxCalls == 3

\* the monitor before its first send_to_backend; log is the history of the
\* current call's requests
IdleSending ==
    [pc |-> "idle", AUTH_TOKEN |-> 0, json_payload |-> <<>>, issued |-> 0,
     calls |-> 0, log |-> <<>>]

\* what curl can report for a POST /ingest: exit code and HTTP code
CurlOutcomes ==
    {[curl_exit_code |-> 0, http_code |-> StatusOK],
     [curl_exit_code |-> 0, http_code |-> StatusUnauthorized],
     [curl_exit_code |-> 0, http_code |-> StatusInternalServerError],
     [curl_exit_code |-> 7, http_code |-> 0]}

\* send_to_backend had it asked for a token after every 401
AfterPostRetrying(pc, out) ==
    IF out.http_code = StatusUnauthorized THEN "get_token_retry" ELSE "idle"

\* send_to_backend after a POST: where it goes on the answer
AfterPost(pc, out) ==
    IF pc = "post_retry" THEN "idle"
    ELSE IF out.curl_exit_code = 0 /\ out.http_code = StatusOK THEN "idle"
    ELSE IF out.http_code = StatusUnauthorized THEN "get_token_retry"
    ELSE "idle"

\* send_to_backend from its call to the point where it needs the network
SendToBackend(payloads) ==
    /\ sending.pc = "idle"
    /\ sending.calls < MaxCalls
    /\ \E d \in payloads :
         sending' = [sending EXCEPT
                       !.pc = IF sending.AUTH_TOKEN = 0 THEN "get_token_first"
                              ELSE "post_first",
                       !.json_payload = d,
                       !.calls = @ + 1,
                       !.log = <<>>]
    /\ UNCHANGED <<now, runs, ver, proc, started, tokens, checked, sweep, due,
                   sweeps, cleanups>>

\* get_auth_token as send_to_backend calls it: on 200 AUTH_TOKEN is the new
\* token, on anything else the function returns 1 and send_to_backend ends
GetAuthToken(ok) ==
    /\ sending.pc \in {"get_token_first", "get_token_retry"}
    /\ sending' =
         IF ok
         THEN [sending EXCEPT
                 !.pc = IF sending.pc = "get_token_first" THEN "post_first"
                        ELSE "post_retry",
                 !.AUTH_TOKEN = sending.issued + 1,
                 !.issued = @ + 1,
                 !.log = Append(@, [req |-> "token", token |-> sending.issued + 1,
                                    payload |-> <<>>, code |-> StatusOK])]
         ELSE [sending EXCEPT
                 !.pc = "idle",
                 !.log = Append(@, [req |-> "token", token |-> 0,
                                    payload |-> <<>>,
                                    code |-> StatusInternalServerError])]
    /\ UNCHANGED <<now, runs, ver, proc, started, tokens, checked, sweep, due,
                   sweeps, cleanups>>

\* one curl -X POST /ingest of send_to_backend and the branch taken on its
\* outcome
PostIngest ==
    /\ sending.pc \in {"post_first", "post_retry"}
    /\ \E out \in CurlOutcomes :
         sending' = [sending EXCEPT
                       !.pc = AfterPost(sending.pc, out),
                       !.log = Append(@, [req |-> "ingest",
                                          token |-> sending.AUTH_TOKEN,
                                          payload |-> sending.json_payload,
                                          code |-> out.http_code])]
    /\ UNCHANGED <<now, runs, ver, proc, started, tokens, checked, sweep, due,
                   sweeps, cleanups>>

(***************************************************************************)
(* The producer: the cleanup program and its lock file.                    *)
(***************************************************************************)
MaxInvocations == 3
Invocations == 1..MaxInvocations

\* an invocation of cleanup.js not yet started; did is the history of what
\* it has done outside itself
IdleInvocation == [pc |-> "idle", acquired |-> FALSE, did |-> {}]

\* fs.openSync(LOCK_FILE, 'w') in place of 'wx'
acquireLockNotExclusive(lock) == [ok |-> TRUE, lock |-> TRUE]

\* acquireLock: the exclusive creation of the lock file
acquireLock(lock) ==
    IF lock THEN [ok |-> FALSE, lock |-> lock]
    ELSE [ok |-> TRUE, lock |-> TRUE]

\* releaseLock: the lock file unlinked if it exists
releaseLock(lock) == FALSE

\* run: acquireLock, and the return when it fails
RunAcquire(i) ==
    /\ cleanups.inv[i].pc = "idle"
    /\ LET got == acquireLock(cleanups.lock)
       IN  cleanups' =
             [lock |-> got.lock,
              inv |-> [cleanups.inv EXCEPT
                         ![i] = [pc |-> IF got.ok THEN "kill" ELSE "returned",
                                 acquired |-> got.ok, did |-> {}]]]
    /\ UNCHANGED <<now, runs, ver, proc, started, tokens, checked, sweep, due,
                   sweeps, sending>>

\* run: the monitor process killed, if its pid file is there
RunKillMonitor(i) ==
    /\ cleanups.inv[i].pc = "kill"
    /\ \E found \in BOOLEAN :
         cleanups' = [cleanups EXCEPT
                        !.inv[i].pc = "finish",
                        !.inv[i].did = IF found THEN @ \cup {"kill"} ELSE @]
    /\ UNCHANGED <<now, runs, ver, proc, started, tokens, checked, sweep, due,
                   sweeps, sending>>

\* run: await markProcessAsFinished(runId), which catches its own errors
RunMarkFinished(i) ==
    /\ cleanups.inv[i].pc = "finish"
    /\ cleanups' = [cleanups EXCEPT !.inv[i].pc = "report",
                                    !.inv[i].did = @ \cup {"finish"}]
    /\ UNCHANGED <<now, runs, ver, proc, started, tokens, checked, sweep, due,
                   sweeps, sending>>

\* run: no log file, so return from inside try; finally releases the lock
RunNoLogFile(i) ==
    /\ cleanups.inv[i].pc = "report"
    /\ cleanups' = [lock |-> releaseLock(cleanups.lock),
                    inv |-> [cleanups.inv EXCEPT
                               ![i].pc = "returned",
                               ![i].did = @ \cup {"unlock"}]]
    /\ UNCHANGED <<now, runs, ver, proc, started, tokens, checked, sweep, due,
                   sweeps, sending>>

\* run: the charts and the summary written, the end of try reached; finally
\* releases the lock
RunComplete(i) ==
    /\ cleanups.inv[i].pc = "report"
    /\ cleanups' = [lock |-> releaseLock(cleanups.lock),
                    inv |-> [cleanups.inv EXCEPT
                               ![i].pc = "returned",
                               ![i].did = @ \cup {"write", "unlock"}]]
    /\ UNCHANGED <<now, runs, ver, proc, started, tokens, checked, sweep, due,
                   sweeps, sending>>

\* run: an exception while the log is parsed or the files are written; catch
\* prints 'Error during cleanup' and calls process.exit(1), which ends the
\* process there: the finally block is not run
RunError(i) ==
    /\ cleanups.inv[i].pc = "report"
    /\ \E wrote \in BOOLEAN :
         cleanups' = [cleanups EXCEPT
                        !.inv[i].pc = "exited",
                        !.inv[i].did = IF wrote THEN @ \cup {"write"} ELSE @]
    /\ UNCHANGED <<now, runs, ver, proc, started, tokens, checked, sweep, due,
                   sweeps, sending>>

Init ==
    /\ now = BootTime
    /\ runs = <<>>
    /\ ver = [r \in RunIds |-> 0]
    /\ proc = [p \in Procs |-> IdleProc]
    /\ started = 0
    /\ tokens = {}
    /\ checked = NotChecked
    /\ sweep = [s \in Sweepers |-> IdleSweep]
    /\ due = [stale |-> FALSE, old |-> FALSE]
    /\ sweeps = 0
    /\ sending = IdleSending
    /\ cleanups = [lock |-> FALSE,
                   inv |-> [i \in Invocations |-> IdleInvocation]]

\* The storage races: two goroutines serving requests that pass the handlers'
\* checks, with a storage that does not fail (SpecApi covers the rest).
Next ==
    \/ \E p \in Procs : IngestRequest(p, GoodIngestRequests(now), FALSE)
    \/ \E p \in Procs : StoreSamplesRead(p)
    \/ \E p \in Procs : StoreSamplesWrite(p)
    \/ \E p \in Procs : FinishRequest(p, GoodFinishRequests(now))
    \/ \E p \in Procs : MarkFinishedWrite(p)
    \/ \E r \in RunIds : DirectFinish(r)
    \/ Advance

Spec == Init /\ [][Next]_vars

\* The backend alone: the same without the producer's direct updates.
NextBackend ==
    \/ \E p \in Procs : IngestRequest(p, GoodIngestRequests(now), FALSE)
    \/ \E p \in Procs : StoreSamplesRead(p)
    \/ \E p \in Procs : StoreSamplesWrite(p)
    \/ \E p \in Procs : FinishRequest(p, GoodFinishRequests(now))
    \/ \E p \in Procs : MarkFinishedWrite(p)
    \/ Advance

SpecBackend == Init /\ [][NextBackend]_vars

\* The API boundary: every request of the input sets, accepted or not, served
\* one at a time by a storage whose calls may fail.
Serial == {1}

NextApi ==
    \/ \E p \in Serial :
         IngestRequest(p, GoodIngestRequests(now) \cup BadIngestRequests(now), FALSE)
    \/ \E p \in Serial : IngestRequest(p, GoodIngestRequests(now), TRUE)
    \/ \E p \in Serial : StoreSamplesRead(p)
    \/ \E p \in Serial : StoreSamplesWrite(p)
    \/ \E p \in Serial :
         FinishRequest(p, GoodFinishRequests(now) \cup BadFinishRequests(now))
    \/ \E p \in Serial : MarkFinishedWrite(p)
    \/ \E p \in Serial : StorageError(p)
    \/ Advance

SpecApi == Init /\ [][NextApi]_vars

\* Tokens: issued, held for hours, presented as issued or altered.
NextToken ==
    \/ \E r \in RunIds : AuthRun(r)
    \/ \E r \in RunIds : Validate(r)
    \/ \E d \in {1, Hour} : Elapse(d)

SpecToken == Init /\ [][NextToken]_vars

\* POST /ingest with a valid token and one line of data, for either run
OneLineIngestRequests(t) == {q \in GoodIngestRequests(t) : q.data = Line1}

\* one more sweep is begun, of the MaxSweeps a behaviour holds
Counted == sweeps < MaxSweeps /\ sweeps' = sweeps + 1

\* neither a sweep nor a request is under way
Quiet == (\A s \in Sweepers : SweepFree(s)) /\ (\A p \in Procs : Free(p))

\* Cleanup: run documents written by one request at a time, the clock
\* advancing by the timeouts, and the four sweepers on a storage that
\* answers every call.
NextSweep ==
    \/ \E p \in Serial :
          started < MaxWrites
          /\ IngestRequest(p, OneLineIngestRequests(now), FALSE)
    \/ \E p \in Serial : StoreSamplesRead(p)
    \/ \E p \in Serial : StoreSamplesWrite(p)
    \/ \E p \in Serial :
          started < MaxWrites /\ FinishRequest(p, GoodFinishRequests(now))
    \/ \E p \in Serial : MarkFinishedWrite(p)
    \/ StaleTick(FALSE) /\ Counted
    \/ ManualStale(AdminPosts, FALSE) /\ Counted
    \/ \E s \in StaleSweepers : SweepMarkRead(s, FALSE)
    \/ \E s \in StaleSweepers : SweepMarkWrite(s, FALSE)
    \/ OldTick /\ Counted
    \/ ManualOld(AdminPosts) /\ Counted
    \/ \E s \in OldSweepers : SweepDelete(s, "deleted")
    \/ \E d \in {BuildTimeout, DataRetentionPeriod} : Wait(d)

SpecSweep == Init /\ [][NextSweep]_vars

\* The same with a storage whose calls may fail, one sweep or request at a
\* time, and a clock that passes the retention period and the stale timeout
\* once.
NextFaulty ==
    \/ \E p \in Serial :
          Quiet /\ started < MaxWrites
          /\ IngestRequest(p, OneLineIngestRequests(now), FALSE)
    \/ \E p \in Serial : StoreSamplesRead(p)
    \/ \E p \in Serial : StoreSamplesWrite(p)
    \/ \E findFails \in BOOLEAN : Quiet /\ StaleTick(findFails) /\ Counted
    \/ \E findFails \in BOOLEAN :
          Quiet /\ ManualStale(AdminPosts, findFails) /\ Counted
    \/ \E s \in StaleSweepers, getFails \in BOOLEAN : SweepMarkRead(s, getFails)
    \/ \E s \in StaleSweepers, setFails \in BOOLEAN : SweepMarkWrite(s, setFails)
    \/ Quiet /\ OldTick /\ Counted
    \/ Quiet /\ ManualOld(AdminPosts) /\ Counted
    \/ \E s \in OldSweepers,
          outcome \in {"next fails", "delete fails", "deleted"} :
             SweepDelete(s, outcome)
    \/ now = BootTime /\ Wait(DataRetentionPeriod + BuildTimeout)

SpecFaulty == Init /\ [][NextFaulty]_vars

\* The service left to itself: runs are written during its first minutes,
\* then the clock advances tick by tick of the stale ticker and the two
\* background loops sweep a storage that answers every call.
Horizon == BootTime + (MaxHours + 2) * Hour
WriteWindow == BootTime + MaxWaits * StaleTickPeriod

\* a request is accepted and served to its end
ServeStep ==
    \/ \E p \in Serial :
          /\ started < MaxWrites
          /\ now <= WriteWindow
          /\ IngestRequest(p, OneLineIngestRequests(now), FALSE)
    \/ \E p \in Serial : StoreSamplesRead(p)
    \/ \E p \in Serial : StoreSamplesWrite(p)

\* a step of either background loop
LoopStep ==
    \/ StaleTick(FALSE) /\ UNCHANGED sweeps
    \/ SweepMarkRead("staleLoop", FALSE)
    \/ SweepMarkWrite("staleLoop", FALSE)
    \/ OldTick /\ UNCHANGED sweeps
    \/ SweepDelete("oldLoop", "deleted")

\* the clock reaches the stale ticker's next tick; the loops have received
\* the ticks before it
ClockStep ==
    /\ now + StaleTickPeriod <= Horizon
    /\ ~due.stale /\ ~due.old
    /\ Wait(StaleTickPeriod)

NextJanitor == ServeStep \/ LoopStep \/ ClockStep

\* main starts both loops as goroutines that run for the life of the process,
\* net/http runs each handler to its return, and the clock does not stop.
SpecJanitor ==
    /\ Init
    /\ [][NextJanitor]_vars
    /\ WF_vars(StoreSamplesRead(1) \/ StoreSamplesWrite(1))
    /\ WF_vars(LoopStep)
    /\ WF_vars(ClockStep)

(***************************************************************************)
(* Properties of the stored run documents.                                 *)
(***************************************************************************)
\* C1: for every run id, once the stored document has finished = TRUE, no
\* later stored state of that document (while it exists) has finished = FALSE,
\* under any interleaving of StoreSamples and MarkRunAsFinished.
C1_FinishedMonotonic ==
    [][\A r \in RunIds :
          (r \in DOMAIN runs /\ runs[r].finished /\ r \in DOMAIN runs')
          => runs'[r].finished]_vars

\* C2: when two StoreSamples calls for one run id both read the document
\* before either writes it and both return success, the stored samples are
\* the samples both read followed by the batch of the call that wrote last:
\* the batch of the other call is lost.
C2_LostUpdate ==
    \A p \in Procs, q \in Procs :
       LET id == proc[q].run_id
           read == SubSeq(proc[p].runDoc.samples, 1,
                          Len(proc[p].runDoc.samples) - Len(proc[p].samples))
       IN  (/\ p # q
            /\ proc[p].pc = "done" /\ proc[q].pc = "done"
            /\ proc[p].op = "ingest" /\ proc[q].op = "ingest"
            /\ proc[p].status = StatusOK /\ proc[q].status = StatusOK
            /\ proc[p].run_id = id
            /\ proc[p].rver = proc[q].rver
            /\ proc[q].wver = ver[id])
           => runs[id].samples = read \o proc[q].samples

\* C2 happens: both calls answered 200 with batches that are not empty and
\* differ, and the stored sequence is shorter than what was read plus both.
C2_LostUpdateReached ==
    \E p \in Procs, q \in Procs :
       LET id == proc[q].run_id
       IN  /\ p # q
           /\ proc[p].pc = "done" /\ proc[q].pc = "done"
           /\ proc[p].op = "ingest" /\ proc[q].op = "ingest"
           /\ proc[p].status = StatusOK /\ proc[q].status = StatusOK
           /\ proc[p].run_id = id
           /\ proc[p].rver = proc[q].rver
           /\ proc[q].wver = ver[id]
           /\ proc[p].samples # <<>> /\ proc[q].samples # <<>>
           /\ proc[p].samples # proc[q].samples
           /\ Len(runs[id].samples)
                < Len(proc[p].runDoc.samples) + Len(proc[q].samples)

\* C3: a StoreSamples(id, batch) that succeeds with no other write of id
\* between its read and its write leaves the stored samples equal to the
\* previous sequence followed by batch, in batch order (for a new id: batch).
C3_AppendsBatch ==
    [][\A p \in Procs :
          LET id == proc[p].run_id
              previous == IF id \in DOMAIN runs THEN runs[id].samples ELSE <<>>
          IN  (/\ proc[p].pc = "ss_write"
               /\ proc'[p].pc = "done"
               /\ proc'[p].status = StatusOK
               /\ proc[p].rver = ver[id])
              => runs'[id].samples = previous \o proc[p].samples]_vars

\* C3 happens: an uninterrupted StoreSamples has added a batch that is not
\* empty to samples that were not empty, and its write is the latest.
C3_AppendedToStored ==
    \E p \in Procs :
       LET id == proc[p].run_id
       IN  /\ proc[p].pc = "done" /\ proc[p].op = "ingest"
           /\ proc[p].status = StatusOK
           /\ proc[p].wver = proc[p].rver + 1
           /\ proc[p].wver = ver[id]
           /\ proc[p].samples # <<>>
           /\ Len(proc[p].runDoc.samples) > Len(proc[p].samples)
           /\ runs[id].samples = proc[p].runDoc.samples

\* C4: in every stored run document, after any writes by StoreSamples,
\* MarkRunAsFinished and the producer's direct finish update,
\* updated_at_timestamp is the epoch-milliseconds of updated_at.
C4_TimestampAgrees ==
    \A r \in DOMAIN runs :
       runs[r].updated_at_timestamp = ToMillis(runs[r].updated_at)

\* C10: MarkRunAsFinished on an unfinished existing run, with no other write
\* between its read and its write, stores the document with finished = TRUE
\* and finished_at, updated_at and updated_at_timestamp set from one clock
\* reading during the call, nothing else changed; called on a run that is
\* already finished it returns success and writes nothing.
C10_FinishIdempotent ==
    [][\A p \in Procs :
          /\ LET id == proc[p].run_id
             IN  (/\ proc[p].pc = "mf_write"
                  /\ proc'[p].pc = "done"
                  /\ proc'[p].status = StatusOK
                  /\ proc[p].rver = ver[id])
                 => \E t \in BootTime..now :
                       /\ t >= runs[id].updated_at
                       /\ runs'[id] = [runs[id] EXCEPT
                                         !.finished = TRUE,
                                         !.finished_at = t,
                                         !.updated_at = t,
                                         !.updated_at_timestamp = ToMillis(t)]
          /\ LET id == proc'[p].run_id
             IN  (/\ Accepting(p)
                  /\ started' = started + 1
                  /\ proc'[p].op = "finish"
                  /\ id \in DOMAIN runs
                  /\ runs[id].finished)
                 => /\ proc'[p].pc = "done"
                    /\ proc'[p].status = StatusOK
                    /\ runs' = runs
                    /\ ver' = ver]_vars

\* C10 happens: a /finish call found the run finished by an earlier call,
\* answered 200 without writing, and the document is as the call read it.
C10_SecondCallReached ==
    \E p \in Procs :
       LET id == proc[p].run_id
       IN  /\ proc[p].pc = "done" /\ proc[p].op = "finish"
           /\ proc[p].status = StatusOK
           /\ proc[p].wver = 0
           /\ id \in DOMAIN runs
           /\ proc[p].runDoc.finished
           /\ proc[p].runDoc.finished_at >= BootTime
           /\ proc[p].rver = ver[id]
           /\ runs[id] = proc[p].runDoc

(***************************************************************************)
(* Properties of the API boundary.                                         *)
(***************************************************************************)
\* C5 as stated: every /ingest or /finish request without a valid
\* "Authorization: Bearer <token>" for its run id is answered 401.
C5_AlwaysUnauthorized ==
    \A p \in Procs :
       (proc[p].pc = "done" /\ proc[p].op \in {"ingest", "finish"}
        /\ ~proc[p].authed)
       => proc[p].status = StatusUnauthorized

\* C5: a POST /ingest whose body decodes, or a POST /finish/{id} with an id,
\* that carries no Authorization header, a header not of the form
\* "Bearer <token>", or a token ValidateToken rejects for the run id is
\* answered 401; a request answered 401 leaves every run document unchanged;
\* every change of a run's stored samples is the write of a request that bore
\* a token valid for that run when it was received.
C5_UnauthorizedRejected ==
    [][/\ \A p \in Procs :
             (proc'[p].pc = "done" /\ proc'[p].reached_auth /\ ~proc'[p].authed)
             => proc'[p].status = StatusUnauthorized
       /\ \A p \in Procs :
             (proc'[p] # proc[p] /\ proc'[p].status = StatusUnauthorized)
             => runs' = runs
       /\ \A r \in RunIds :
             (/\ r \in DOMAIN runs'
              /\ r \in DOMAIN runs => runs'[r].samples # runs[r].samples)
             => \E p \in Procs :
                   /\ proc[p].pc \in {"ss_write", "mf_write"}
                   /\ proc[p].run_id = r
                   /\ proc[p].authed
                   /\ proc'[p].pc = "done"]_vars

\* C5 happens: a POST /ingest that reached the Authorization check without a
\* valid token was answered 401 while a run document with samples is stored.
C5_RejectedReached ==
    \E p \in Procs :
       /\ proc[p].pc = "done" /\ proc[p].op = "ingest"
       /\ proc[p].reached_auth /\ ~proc[p].authed
       /\ proc[p].status = StatusUnauthorized
       /\ \E r \in DOMAIN runs : runs[r].samples # <<>>

(***************************************************************************)
(* Properties of tokens.                                                   *)
(***************************************************************************)
\* C6: a token GenerateToken issued for run r is rejected, with an error, by
\* ValidateToken for every run id other than r, at any time.
C6_OtherRunRejected ==
    \A k \in tokens :
       (checked.made /\ checked.token = k.token /\ checked.run_id # k.run_id)
       => ~checked.res.valid /\ checked.res.err # ""

\* C6 happens: an issued token that has not expired was presented for another
\* run id and rejected for the run id alone.
C6_MismatchReached ==
    \E k \in tokens :
       /\ checked.made /\ checked.token = k.token
       /\ checked.run_id # k.run_id
       /\ checked.at <= k.expires_at
       /\ checked.res.err = "token run_id mismatch"

\* C7: a token issued at t carries expires_at = t + 2 hours; for the matching
\* run id ValidateToken accepts it at every instant up to and including
\* expires_at and rejects it at every instant after.
C7_TwoHourExpiry ==
    \A k \in tokens :
       /\ k.expires_at = k.created_at + 2 * Hour
       /\ (checked.made /\ checked.token = k.token /\ checked.run_id = k.run_id)
          => IF checked.at <= k.expires_at
             THEN checked.res.valid /\ checked.res.err = ""
             ELSE ~checked.res.valid /\ checked.res.err # ""

\* C7 happens: a token was accepted at the very instant of its expiry.
C7_AcceptedAtExpiry ==
    \E k \in tokens :
       /\ checked.made /\ checked.token = k.token
       /\ checked.run_id = k.run_id
       /\ checked.at = k.expires_at
       /\ checked.res.valid

\* C8: for every run id r, ValidateToken(GenerateToken(r).token, r) called at
\* the instant of issuance returns valid with no error.
C8_RoundTrip ==
    \A k \in tokens :
       (checked.made /\ checked.token = k.token /\ checked.run_id = k.run_id
        /\ checked.at = k.created_at)
       => checked.res = [valid |-> TRUE, err |-> ""]

\* C8 happens: a token was validated for its run at the instant it was issued.
C8_RoundTripReached ==
    \E k \in tokens :
       /\ checked.made /\ checked.token = k.token
       /\ checked.run_id = k.run_id
       /\ checked.at = k.created_at
       /\ k.token = GenerateToken(k.run_id, checked.at).token
       /\ checked.res.valid

\* C9: ValidateToken rejects every token that is not exactly two parts or
\* whose second part is not the hex of the MAC of the first part's bytes under
\* the server's secret, and it does so before it looks at the payload's expiry
\* or run id: the error is never "token has expired" or "token run_id
\* mismatch", whatever the payload claims.
C9_SignatureFirst ==
    LET token == checked.token
        signed == /\ Len(token) = 2
                  /\ Base64Decode(token[1]).ok
                  /\ HexDecode(token[2]).ok
                  /\ HexDecode(token[2]).sig
                       = Hmac(secretKey, Base64Decode(token[1]).bytes)
    IN  (checked.made /\ ~signed)
        => /\ ~checked.res.valid
           /\ checked.res.err \in {"invalid token format",
                                   "failed to decode payload",
                                   "failed to decode signature",
                                   "invalid signature"}

\* C9 happens: a token of two well-encoded parts whose payload is expired and
\* names another run, under a signature that is not the server's, was
\* rejected for its signature.
C9_BadSignatureReached ==
    /\ checked.made
    /\ Len(checked.token) = 2
    /\ Base64Decode(checked.token[1]).ok
    /\ HexDecode(checked.token[2]).ok
    /\ JsonUnmarshal(checked.token[1].bytes).ok
    /\ checked.at > checked.token[1].bytes.expires_at
    /\ checked.run_id # checked.token[1].bytes.run_id
    /\ checked.res.err = "invalid signature"

(***************************************************************************)
(* Properties of the cleanup sweeps.                                       *)
(***************************************************************************)

\* C11: a stale sweep's FindStaleRuns returns, once each, exactly the ids of
\* the documents that are not finished and whose updated_at lies more than
\* the timeout before the clock; a finished document, or one whose
\* inactivity is the timeout or less, is not returned; the call changes no
\* document.
C11_FindStaleExact ==
    [][\A s \in StaleSweepers :
          (SweepFree(s) /\ sweep'[s] # sweep[s] /\ ~sweep'[s].err
             /\ sweep'[s].status \in {NoStatus, StatusOK})
          => LET found == sweep'[s].found
             IN  /\ \A r \in RunIds :
                      (\E k \in 1..Len(found) : found[k] = r)
                      <=> /\ r \in DOMAIN runs
                          /\ ~runs[r].finished
                          /\ now - runs[r].updated_at > BuildTimeout
                 /\ \A k, l \in 1..Len(found) : found[k] = found[l] => k = l
                 /\ runs' = runs]_vars

\* a sweep found one stale run and left out a run that is not finished and
\* whose inactivity is exactly the timeout
C11_StaleFoundBesideBoundary ==
    \E s \in StaleSweepers, r \in RunIds :
        /\ sweep[s].found = <<r>>
        /\ \E o \in DOMAIN sweep[s].base :
              /\ ~sweep[s].base[o].finished
              /\ sweep[s].at - sweep[s].base[o].updated_at = BuildTimeout

\* C12: a retention sweep that no other writer interleaves with, on a
\* storage without errors, deletes exactly the documents whose
\* updated_at_timestamp is below millis(now - retention), finished or not,
\* returns exactly their ids, and leaves every other document, one exactly
\* at the cutoff included, as it was.
C12_DeleteOldExact ==
    \A s \in OldSweepers :
        LET sw == sweep[s]
            cutoff == ToMillis(sw.at - DataRetentionPeriod)
            old == {r \in DOMAIN sw.base :
                       sw.base[r].updated_at_timestamp < cutoff}
        IN  (/\ sw.pc = "done"
             /\ sw.status \in {NoStatus, StatusOK}
             /\ sw.at # ZeroTime
             /\ \A r \in RunIds :
                   ver[r] = sw.ver0[r] + (IF r \in sw.wrote THEN 1 ELSE 0))
            => /\ {sw.cleaned[k] : k \in 1..Len(sw.cleaned)} = old
               /\ Len(sw.cleaned) = Cardinality(old)
               /\ DOMAIN runs = DOMAIN sw.base \ old
               /\ \A r \in DOMAIN runs : runs[r] = sw.base[r]

\* a retention sweep deleted one document and kept one whose
\* updated_at_timestamp is exactly the cutoff
C12_DeletedBesideCutoff ==
    \E s \in OldSweepers, r \in RunIds :
        /\ sweep[s].pc = "done"
        /\ sweep[s].cleaned = <<r>>
        /\ r \notin DOMAIN runs
        /\ \E o \in DOMAIN runs :
              /\ o \in DOMAIN sweep[s].base
              /\ runs[o] = sweep[s].base[o]
              /\ runs[o].updated_at_timestamp
                   = ToMillis(sweep[s].at - DataRetentionPeriod)

\* C13: with the stale loop running and the storage answering, a run that
\* has been ingested and is written no more is eventually shown finished by
\* GET /runs/{id}: the stale tick after its inactivity passes five minutes
\* marks it.
C13_EventuallyShownFinished ==
    \A r \in RunIds :
        (r \in DOMAIN runs)
        ~> (/\ GetRunResponse(runs, r).status = StatusOK
            /\ GetRunResponse(runs, r).finished)

\* the stale loop has marked an ingested run, which GET /runs/{id} shows
\* finished
C13_MarkedByLoop ==
    \E r \in RunIds :
        /\ r \in sweep["staleLoop"].wrote
        /\ sweep["staleLoop"].at - sweep["staleLoop"].base[r].updated_at
             > BuildTimeout
        /\ GetRunResponse(runs, r).status = StatusOK
        /\ GetRunResponse(runs, r).finished

\* C14: with both loops running and the storage answering, every run
\* document that is written no more is eventually deleted by the retention
\* loop; the stale sweep's refresh of updated_at delays the deletion and
\* does not prevent it.
C14_EventuallyDeleted ==
    \A r \in RunIds : (r \in DOMAIN runs) ~> (r \notin DOMAIN runs)

\* the retention loop has deleted a run whose updated_at the stale loop
\* had refreshed when marking it
C14_DeletedAfterRefresh ==
    \E r \in RunIds :
        /\ r \notin DOMAIN runs
        /\ r \in sweep["oldLoop"].wrote
        /\ sweep["oldLoop"].base[r].finished
        /\ sweep["oldLoop"].base[r].updated_at
             = sweep["oldLoop"].base[r].finished_at
        /\ sweep["oldLoop"].base[r].updated_at
             > sweep["oldLoop"].base[r].created_at + BuildTimeout

\* C15: the admin's POST /cleanup/stale has the storage effect of one tick of
\* the stale loop, and POST /cleanup/old that of one tick of the retention
\* loop: begun at the same instant on the same collection, handler and loop
\* handle the same ids, and either of them, run to its end with no other
\* writer, leaves the same collection: the stale runs marked finished at
\* that instant, or the old documents deleted, and the rest as it was.
C15_ManualAsTick ==
    /\ \A pair \in {<<"staleLoop", "staleManual">>, <<"oldLoop", "oldManual">>} :
          LET tick == sweep[pair[1]]
              post == sweep[pair[2]]
          IN  (/\ tick.at # ZeroTime /\ ~tick.err
               /\ post.status \in {NoStatus, StatusOK}
               /\ post.at = tick.at
               /\ post.base = tick.base)
              => post.found = tick.found
    /\ \A s \in Sweepers :
          LET sw == sweep[s]
              cutoff == ToMillis(sw.at - DataRetentionPeriod)
              Handled(r) ==
                  IF s \in StaleSweepers
                  THEN ~sw.base[r].finished
                       /\ sw.at - sw.base[r].updated_at > BuildTimeout
                  ELSE sw.base[r].updated_at_timestamp < cutoff
          IN  (/\ sw.pc = "done"
               /\ sw.at # ZeroTime
               /\ sw.status \in {NoStatus, StatusOK}
               /\ \A r \in RunIds :
                     ver[r] = sw.ver0[r] + (IF r \in sw.wrote THEN 1 ELSE 0))
              => IF s \in StaleSweepers
                 THEN /\ DOMAIN runs = DOMAIN sw.base
                      /\ \A r \in DOMAIN runs :
                            runs[r] = IF Handled(r)
                                      THEN MarkFinishedRunDoc(sw.base[r], sw.at)
                                      ELSE sw.base[r]
                 ELSE /\ DOMAIN runs = {r \in DOMAIN sw.base : ~Handled(r)}
                      /\ \A r \in DOMAIN runs : runs[r] = sw.base[r]

\* the handler and the loop began a stale sweep at the same instant on the
\* same collection, and the handler, alone to write, marked the run they found
C15_ManualBesideTick ==
    \E r \in RunIds :
        /\ sweep["staleLoop"].found = <<r>>
        /\ sweep["staleManual"].found = <<r>>
        /\ sweep["staleManual"].base = sweep["staleLoop"].base
        /\ sweep["staleManual"].at = sweep["staleLoop"].at
        /\ sweep["staleManual"].pc = "done"
        /\ sweep["staleManual"].status = StatusOK
        /\ sweep["staleManual"].wrote = {r}
        /\ ver[r] = sweep["staleManual"].ver0[r] + 1
        /\ runs[r].finished

\* C16: two sweeps of one kind that interleave at one instant, with no other
\* writer, leave the documents, and the finished flags, that one of them
\* alone leaves from the state the first began in; neither gets an error
\* from the other's writes.
C16_InterleavedAsOne ==
    \A a, b \in Sweepers :
        LET first == sweep[a]
            other == sweep[b]
            cutoff == ToMillis(first.at - DataRetentionPeriod)
            stale == {r \in DOMAIN first.base :
                        /\ ~first.base[r].finished
                        /\ first.at - first.base[r].updated_at > BuildTimeout}
            old == {r \in DOMAIN first.base :
                      first.base[r].updated_at_timestamp < cutoff}
        IN  (/\ a # b
             /\ {a, b} \in {StaleSweepers, OldSweepers}
             /\ first.pc = "done" /\ first.at # ZeroTime
             /\ other.pc = "done" /\ other.at = first.at
             /\ \A r \in RunIds : other.ver0[r] >= first.ver0[r]
             /\ \A r \in RunIds :
                   ver[r] = first.ver0[r]
                            + (IF r \in first.wrote THEN 1 ELSE 0)
                            + (IF r \in other.wrote THEN 1 ELSE 0))
            => /\ first.failed = <<>> /\ ~first.err
               /\ other.failed = <<>> /\ ~other.err
               /\ IF a \in StaleSweepers
                  THEN /\ DOMAIN runs = DOMAIN first.base
                       /\ \A r \in DOMAIN runs :
                             runs[r].finished
                             = (first.base[r].finished \/ r \in stale)
                  ELSE /\ DOMAIN runs = DOMAIN first.base \ old
                       /\ \A r \in DOMAIN runs :
                             runs[r].finished = first.base[r].finished

\* two sweeps of one kind both read the same document before either wrote,
\* and both wrote it
C16_BothWrote ==
    \E a, b \in Sweepers, r \in RunIds :
        /\ a # b
        /\ {a, b} \in {StaleSweepers, OldSweepers}
        /\ sweep[a].pc = "done" /\ sweep[b].pc = "done"
        /\ sweep[a].at = sweep[b].at
        /\ r \in sweep[a].wrote \cap sweep[b].wrote
        /\ sweep[a].ver0[r] = sweep[b].ver0[r]
        /\ ver[r] = sweep[a].ver0[r] + 2

(***************************************************************************)
(* Properties of the sweeps on a storage whose calls may fail.             *)
(***************************************************************************)

C18_DeleteFailureSkipped ==
    /\ [][\A s \in OldSweepers :
             Len(sweep'[s].failed) = Len(sweep[s].failed) + 1
             => /\ ~sweep'[s].err
                /\ sweep'[s].cleaned = sweep[s].cleaned
                /\ runs' = runs
                /\ IF sweep[s].i < Len(sweep[s].found)
                   THEN /\ sweep'[s].pc = "deleting"
                        /\ sweep'[s].i = sweep[s].i + 1
                        /\ sweep'[s].found = sweep[s].found
                   ELSE /\ sweep'[s].pc = "done"
                        /\ sweep'[s].status
                             = IF s = "oldManual" THEN StatusOK ELSE NoStatus]_vars
    /\ [](\A s \in OldSweepers :
             /\ {sweep[s].cleaned[k] : k \in 1..Len(sweep[s].cleaned)}
                  = sweep[s].wrote
             /\ Len(sweep[s].cleaned) = Cardinality(sweep[s].wrote)
             /\ \A k \in 1..Len(sweep[s].failed) :
                   sweep[s].failed[k] \notin sweep[s].wrote)

\* a retention sweep failed to delete the first of two documents, deleted
\* the second and returned its id alone, without an error
C18_SecondDeletedAfterFailure ==
    \E s \in OldSweepers, r, o \in RunIds :
        /\ sweep[s].pc = "done"
        /\ ~sweep[s].err
        /\ sweep[s].found = <<r, o>>
        /\ sweep[s].failed = <<r>>
        /\ sweep[s].cleaned = <<o>>
        /\ r \in DOMAIN runs
        /\ o \notin DOMAIN runs

(***************************************************************************)
(* Properties of the stored samples.                                       *)
(***************************************************************************)

\* C19: every sample stored under a run, those of the ingest that created
\* the run included, has for timestamp the milliseconds of the start_time
\* recorded in the run's document plus 1000 times its elapsed seconds.
C19_TimestampFromStoredStart ==
    \A r \in DOMAIN runs :
        \A k \in 1..Len(runs[r].samples) :
            runs[r].samples[k].timestamp
              = ToMillis(runs[r].start_time)
                + 1000 * runs[r].samples[k].elapsed_time

\* C20: every sample stored under run r by an ingest has r for its run
\* identifier.
C20_SampleRunId ==
    \A r \in DOMAIN runs :
        \A k \in 1..Len(runs[r].samples) : runs[r].samples[k].run_id = r

(***************************************************************************)
(* Ingest requests that carry process_info.                                *)
(***************************************************************************)
\* /ingest bodies with and without process_info, with and without data; the
\* producer's first-seen request is the one with process_info and data ""
InfoIngestRequests(t) ==
    LET JavaInfo == [given |-> TRUE, pid |-> "7", name |-> "GradleDaemon",
                     vm_flags |-> <<"-XX:+UseG1GC">>]
    IN
    {[method |-> "POST", body_ok |-> TRUE,
      auth |-> IF valid THEN GoodAuth(r, t) ELSE <<>>, run_id |-> r,
      data |-> d, process_info |-> i] :
        valid \in BOOLEAN, r \in RunIds,
        d \in {Line1, <<>>}, i \in {NoProcessInfo, JavaInfo}}

NextInfo ==
    \/ \E p \in Procs : IngestRequest(p, InfoIngestRequests(now), FALSE)
    \/ \E p \in Procs : IngestRequest(p, InfoIngestRequests(now), TRUE)
    \/ \E p \in Procs : StoreSamplesRead(p)
    \/ \E p \in Procs : StoreSamplesWrite(p)
    \/ \E p \in Procs : StorageError(p)
    \/ \E p \in Procs : StoreProcessInfoRead(p, FALSE)
    \/ \E p \in Procs : StoreProcessInfoRead(p, TRUE)
    \/ \E p \in Procs : StoreProcessInfoWrite(p, FALSE)
    \/ \E p \in Procs : StoreProcessInfoWrite(p, TRUE)

SpecInfo == Init /\ [][NextInfo]_vars

\* C21: every /ingest request that passed token validation and carried
\* process_info, and that no storage error ended, has had StoreProcessInfo
\* attempted for its run and pid by the time it is answered.
C21_InfoAlwaysAttempted ==
    \A p \in Procs :
        ( /\ proc[p].pc = "done"
          /\ proc[p].op = "ingest"
          /\ proc[p].reached_auth
          /\ proc[p].authed
          /\ proc[p].info.given
          /\ proc[p].status # StatusInternalServerError )
        => proc[p].pi # "none"

\* C22: an ingest whose StoreSamples succeeded and whose StoreProcessInfo then
\* failed is answered 200 with status success and the count of the samples it
\* parsed, and as long as nobody else has written the run since, the document
\* holds those samples at the end of its sample list.
C22_InfoFailureStill200 ==
    \A p \in Procs :
        (proc[p].pc = "done" /\ proc[p].pi = "failed")
        => /\ proc[p].status = StatusOK
           /\ IngestResponse(p).status = "success"
           /\ LET id == proc[p].run_id
                  n == Len(proc[p].samples)
              IN  ver[id] = proc[p].wver
                  => /\ id \in DOMAIN runs
                     /\ Len(runs[id].samples) >= n
                     /\ SubSeq(runs[id].samples,
                               Len(runs[id].samples) - n + 1,
                               Len(runs[id].samples)) = proc[p].samples

C22_AnsweredAfterInfoFailure ==
    \E p \in Procs :
        /\ proc[p].pc = "done"
        /\ proc[p].pi = "failed"
        /\ proc[p].status = StatusOK
        /\ IngestResponse(p).samples > 0
        /\ proc[p].run_id \in DOMAIN runs

(***************************************************************************)
(* ParseData on the lines the producer writes.                             *)
(***************************************************************************)
MaxLines == 2

RECURSIVE Columns(_)
\* the columns of a line joined by " | "
Columns(cols) ==
    IF Len(cols) = 1 THEN cols[1]
    ELSE cols[1] \o Sep \o Columns(Tail(cols))

\* a GC field as the producer writes it: seconds with three decimals and "s"
GcInSeconds == <<"0", ".", "2", "5", "0", "s">>

\* lines beside Line1, Line2 and BadLine: a two-part time, a time that is not
\* a number, heap and RSS fields that are not numbers or are N/A, and GC
\* fields N/A, in seconds as the producer writes them, and not a number
LineInputs ==
    LET Row(clock, used, cap, rss, gc) ==
            Columns(<<clock, <<"7">>, <<"G">>, used, cap, rss>> \o gc)
        one == <<"1">> \o MB
        Clock2 == <<"0", "0", ":", "0", "0", ":", "0", "2">>
    IN  {Line1, Line2, BadLine, <<>>,
         Row(<<"0", "1", ":", "0", "2">>, one, one, one, <<>>),
         Row(<<"0", "0", ":", "0", "x", ":", "0", "2">>, one, one, one, <<>>),
         Row(Clock2, <<"x">> \o MB, one, one, <<>>),
         Row(Clock2, NA, NA, one, <<>>),
         Row(Clock2, one, one, NA, <<NA>>),
         Row(Clock2, one, one, one, <<NA>>),
         Row(Clock2, one, one, one, <<GcInSeconds>>),
         Row(Clock2, one, one, one, <<<<"x">>>>)}

\* every payload of at most MaxLines of these lines, each ended by a newline
RECURSIVE Payloads(_)
Payloads(n) ==
    IF n = 0 THEN {<<>>}
    ELSE Payloads(n - 1)
         \cup {d \o l \o <<"\n">> : d \in Payloads(n - 1), l \in LineInputs}

\* POST /ingest for run r1 with a valid token and each of these payloads
ParseIngestRequests(t) ==
    {[method |-> "POST", body_ok |-> TRUE, auth |-> GoodAuth("r1", t),
      run_id |-> "r1", data |-> d, process_info |-> NoProcessInfo] :
        d \in Payloads(MaxLines)}

\* one ingest of one line for either run, time passing after it, then one
\* ingest of a payload
NextParse ==
    \/ started = 0 /\ IngestRequest(1, OneLineIngestRequests(now), FALSE)
    \/ started = 1 /\ Free(1) /\ Advance
    \/ started = 1 /\ IngestRequest(1, ParseIngestRequests(now), FALSE)
    \/ StoreSamplesRead(1)
    \/ StoreSamplesWrite(1)

SpecParse == Init /\ [][NextParse]_vars

\* the lines of a payload that are not empty
NonEmptyLines(data) ==
    SelectSeq(Split(TrimSpace(data), "\n"), LAMBDA l : TrimSpace(l) # <<>>)

\* the trimmed fields of a line
Fields(l) ==
    LET raw == Split(TrimSpace(l), "|")
    IN  [i \in 1..Len(raw) |-> TrimSpace(raw[i])]

\* a line that is not malformed: 6 or 7 fields, an HH:MM:SS of three numbers,
\* and heap used, heap capacity and RSS that parse as numbers
WellFormed(l) ==
    LET f == Fields(l)
        clock == Split(f[1], ":")
        Number(x) == ParseFloat(TrimSuffix(x, MB)).ok
    IN  /\ Len(f) \in {6, 7}
        /\ Len(clock) = 3
        /\ \A i \in 1..3 : Atoi(clock[i]).ok
        /\ \A i \in 4..6 : Number(f[i])

\* C23: of the n non-empty lines of an ingested payload, k of them malformed,
\* ParseData returns the samples of the n - k others in line order; the
\* request is answered 200 with samples = n - k, and one StoreSamples write
\* appends exactly those samples to the run's document.
C23_MalformedLinesSkipped ==
    \A p \in Procs :
        (proc[p].op = "ingest" /\ proc[p].data # <<>>)
        => LET lines == NonEmptyLines(proc[p].data)
               good == SelectSeq(lines, WellFormed)
               id == proc[p].run_id
               n == Len(good)
               stored == runs[id].samples
               Untimed(sample) == [sample EXCEPT !.timestamp = 0]
           IN  /\ Len(proc[p].samples) = n
               /\ \A i \in 1..n :
                     Untimed(proc[p].samples[i])
                       = Untimed(ParseLine(good[i], ZeroTime).sample[1])
               /\ proc[p].pc = "done"
                  => /\ proc[p].status = StatusOK
                     /\ IngestResponse(p).samples = n
                     /\ proc[p].wver = proc[p].rver + 1
                     /\ ver[id] = proc[p].wver
                     /\ Len(stored) >= n
                     /\ SubSeq(stored, Len(stored) - n + 1, Len(stored))
                          = proc[p].samples

C23_SkippedBetweenStored ==
    \E p \in Procs :
        /\ proc[p].pc = "done"
        /\ proc[p].status = StatusOK
        /\ Len(NonEmptyLines(proc[p].data)) = 2
        /\ ~WellFormed(NonEmptyLines(proc[p].data)[1])
        /\ Len(proc[p].samples) = 1
        /\ Len(runs[proc[p].run_id].samples) = 2

\* a line with 6 or 7 fields and a good HH:MM:SS whose heap used, heap
\* capacity and RSS are each a number or N/A
WellFormedOrNA(l) ==
    LET f == Fields(l)
        clock == Split(f[1], ":")
        Number(x) == ParseFloat(TrimSuffix(x, MB)).ok
    IN  /\ Len(f) \in {6, 7}
        /\ Len(clock) = 3
        /\ \A i \in 1..3 : Atoi(clock[i]).ok
        /\ \A i \in 4..6 : Number(f[i]) \/ f[i] = NA

\* C24: every line of an ingested payload that has the right number of
\* fields, N/A standing for any of its numeric fields, yields a sample: the
\* payload's samples are as many as such lines.
C24_NotAvailableStillSampled ==
    \A p \in Procs :
        (proc[p].op = "ingest" /\ proc[p].data # <<>>)
        => Len(proc[p].samples)
             = Len(SelectSeq(NonEmptyLines(proc[p].data), WellFormedOrNA))

\* C25: a 7-column line whose GC field is 0.250s yields a sample whose GC time
\* is a quarter of a second, which in no unit is 0.
C25_GcSecondsParsed ==
    \A p \in Procs :
        (proc[p].op = "ingest" /\ proc[p].data # <<>>)
        => LET good == SelectSeq(NonEmptyLines(proc[p].data), WellFormed)
           IN  \A i \in 1..Len(good) :
                 (Len(Fields(good[i])) = 7 /\ Fields(good[i])[7] = GcInSeconds)
                 => /\ i <= Len(proc[p].samples)
                    /\ proc[p].samples[i].gc_time # 0

(***************************************************************************)
(* The routes and their methods.                                           *)
(***************************************************************************)
Methods == {"GET", "POST", "OPTIONS", "DELETE"}

\* Handlers.Health: the liveness JSON, whatever the request
HealthRequest(p) ==
    /\ Accepting(p)
    /\ \E m \in Methods :
         proc' = [proc EXCEPT ![p] =
                    [IdleProc EXCEPT !.pc = "done", !.op = "health",
                                     !.method = m, !.status = StatusOK]]
    /\ started' = started + 1
    /\ UNCHANGED <<tokens, checked, sweep, due, sweeps, now, runs, ver, sending, cleanups>>

\* Handlers.Auth: 400 without a run id in the path, else a token for the run
AuthRequest(p, ids) ==
    /\ Accepting(p)
    /\ \E m \in Methods, r \in ids :
         LET g == GenerateToken(r, now)
             seen == [IdleProc EXCEPT !.pc = "done", !.op = "auth",
                                      !.method = m, !.run_id = r]
         IN  IF r = ""
             THEN /\ proc' = [proc EXCEPT ![p] =
                               [seen EXCEPT !.status = StatusBadRequest]]
                  /\ UNCHANGED tokens
             ELSE /\ proc' = [proc EXCEPT ![p] =
                               [seen EXCEPT !.status = StatusOK]]
                  /\ tokens' = {k \in tokens : k.run_id # r}
                                \cup {[token |-> g.token,
                                        expires_at |-> g.expires_at,
                                        run_id |-> r, created_at |-> now]}
    /\ started' = started + 1
    /\ UNCHANGED <<checked, sweep, due, sweeps, now, runs, ver, sending, cleanups>>

\* Handlers.GetRun: OPTIONS, a method other than GET, no run id in the path,
\* or the answer made from the stored document
GetRunRequest(p, ids) ==
    /\ Accepting(p)
    /\ \E m \in Methods, r \in ids :
         proc' = [proc EXCEPT ![p] =
                    [IdleProc EXCEPT
                       !.pc = "done", !.op = "runs", !.method = m,
                       !.run_id = r,
                       !.status = IF m = "OPTIONS" THEN StatusOK
                                  ELSE IF m # "GET" THEN StatusMethodNotAllowed
                                  ELSE IF r = "" THEN StatusBadRequest
                                  ELSE GetRunResponse(runs, r).status]]
    /\ started' = started + 1
    /\ UNCHANGED <<tokens, checked, sweep, due, sweeps, now, runs, ver, sending, cleanups>>

\* requests sent with each method
MethodRequests(requests) ==
    {[q EXCEPT !.method = m] : q \in requests, m \in Methods}

NextRoutes ==
    \/ HealthRequest(1)
    \/ AuthRequest(1, {"r1", ""})
    \/ IngestRequest(1, MethodRequests({q \in OneLineIngestRequests(now) :
                                          q.run_id = "r1"}), FALSE)
    \/ StoreSamplesRead(1)
    \/ StoreSamplesWrite(1)
    \/ GetRunRequest(1, {"r1", ""})
    \/ FinishRequest(1, MethodRequests({q \in GoodFinishRequests(now) :
                                          q.run_id = "r1"}))
    \/ MarkFinishedWrite(1)
    \/ ManualStale(AdminRequests \cup MethodRequests(AdminPosts), FALSE)
         /\ UNCHANGED sweeps
    \/ ManualOld(AdminRequests \cup MethodRequests(AdminPosts))
         /\ UNCHANGED sweeps

SpecRoutes == Init /\ [][NextRoutes]_vars

\* C26: on every route (GET /healthz and /runs/{id}; POST /auth/run/{id},
\* /ingest, /finish/{id}, /cleanup/stale and /cleanup/old) a request whose
\* method is neither the route's nor OPTIONS is answered 405.
C26_WrongMethod405 ==
    /\ \A p \in Procs :
          LET RouteMethod == IF proc[p].op \in {"health", "runs"} THEN "GET"
                             ELSE "POST"
          IN  ( /\ proc[p].pc = "done"
                /\ proc[p].op \in {"health", "auth", "ingest", "runs", "finish"}
                /\ proc[p].method \notin {RouteMethod, "OPTIONS"} )
              => proc[p].status = StatusMethodNotAllowed
    /\ \A s \in {"staleManual", "oldManual"} :
          (sweep[s].pc = "done" /\ sweep[s].method \notin {"", "POST", "OPTIONS"})
          => sweep[s].status = StatusMethodNotAllowed

\* C27: a POST to /cleanup/stale or /cleanup/old is accepted exactly when its
\* X-Admin-Secret is not empty and equals, case for case, the admin secret;
\* one that is not accepted is answered 401 and has queried and written
\* nothing in storage.
C27_AdminSecretExact ==
    \A s \in {"staleManual", "oldManual"} :
        (sweep[s].method = "POST" /\ sweep[s].pc = "done")
        => IF sweep[s].secret # "" /\ sweep[s].secret = adminSecret
           THEN sweep[s].status # StatusUnauthorized
           ELSE /\ sweep[s].status = StatusUnauthorized
                /\ sweep[s].at = ZeroTime
                /\ sweep[s].found = <<>>
                /\ sweep[s].wrote = {}
                /\ sweep[s].cleaned = <<>>

C27_RejectedAndAccepted ==
    /\ sweep["staleManual"].method = "POST"
    /\ sweep["staleManual"].secret = "Admin-Dev-Secret-Change-Me"
    /\ sweep["staleManual"].status = StatusUnauthorized
    /\ sweep["oldManual"].method = "POST"
    /\ sweep["oldManual"].secret = adminSecret
    /\ sweep["oldManual"].status = StatusOK
    /\ sweep["oldManual"].at = now

(***************************************************************************)
(* The producer's send_to_backend.                                         *)
(***************************************************************************)
NextSend ==
    \/ SendToBackend({Line1, Line2})
    \/ GetAuthToken(TRUE)
    \/ GetAuthToken(FALSE)
    \/ PostIngest

SpecSend == Init /\ [][NextSend]_vars

\* C28: one send_to_backend call makes at most two POST /ingest attempts; a
\* first attempt not answered 401 is the call's last request; a second
\* attempt comes right after a token request that succeeded, itself right
\* after the first attempt was answered 401, carries that new token and the
\* first attempt's payload, and is the call's last request whatever its
\* outcome.
C28_AtMostOneRetry ==
    LET log == sending.log
        n == Len(log)
        posts == SelectSeq(log, LAMBDA e : e.req = "ingest")
    IN  /\ Len(posts) <= 2
        /\ (Len(posts) = 1 /\ posts[1].code # StatusUnauthorized)
           => sending.pc = "idle" /\ log[n] = posts[1]
        /\ Len(posts) = 2
           => /\ sending.pc = "idle"
              /\ n >= 3
              /\ log[n] = posts[2]
              /\ log[n - 1].req = "token"
              /\ log[n - 1].code = StatusOK
              /\ log[n - 2] = posts[1]
              /\ posts[1].code = StatusUnauthorized
              /\ posts[2].token = log[n - 1].token
              /\ posts[2].token # posts[1].token
              /\ posts[2].payload = posts[1].payload

C28_RetriedOnceAndStopped ==
    LET posts == SelectSeq(sending.log, LAMBDA e : e.req = "ingest")
    IN  /\ sending.pc = "idle"
        /\ Len(posts) = 2
        /\ posts[2].code = StatusUnauthorized
        /\ posts[2].payload = Line2

(***************************************************************************)
(* The cleanup program's lock.                                             *)
(***************************************************************************)
NextCleanup ==
    \/ \E i \in Invocations : RunAcquire(i)
    \/ \E i \in Invocations : RunKillMonitor(i)
    \/ \E i \in Invocations : RunMarkFinished(i)
    \/ \E i \in Invocations : RunNoLogFile(i)
    \/ \E i \in Invocations : RunComplete(i)
    \/ \E i \in Invocations : RunError(i)

SpecCleanup == Init /\ [][NextCleanup]_vars

\* C29: at most one invocation of the cleanup program is in the cleanup body
\* at a time, and it is there with the lock file present; an invocation that
\* found the lock file present has returned without killing the monitor,
\* calling finish, writing files or removing the lock.
C29_OneCleanupAtATime ==
    LET InBody == {i \in Invocations :
                     cleanups.inv[i].pc \in {"kill", "finish", "report"}}
    IN  /\ Cardinality(InBody) <= 1
        /\ InBody # {} => cleanups.lock
        /\ \A i \in Invocations :
              (cleanups.inv[i].pc # "idle" /\ ~cleanups.inv[i].acquired)
              => cleanups.inv[i].pc = "returned" /\ cleanups.inv[i].did = {}

C29_SkippedWhileRunning ==
    \E i, j \in Invocations :
        /\ cleanups.inv[i].pc = "finish"
        /\ "kill" \in cleanups.inv[i].did
        /\ cleanups.inv[j].pc = "returned"
        /\ ~cleanups.inv[j].acquired
        /\ cleanups.lock

\* C30: every invocation that acquired the lock has released it by the time
\* it has ended, whichever way it ended.
C30_LockAlwaysReleased ==
    \A i \in Invocations :
        (cleanups.inv[i].acquired /\ cleanups.inv[i].pc \in {"returned", "exited"})
        => "unlock" \in cleanups.inv[i].did

(***************************************************************************)
(* Sweeps beside requests.                                                 *)
(***************************************************************************)
\* C31: a stale sweep does not mark a run finished that an ingest has
\* refreshed since the sweep's FindStaleRuns returned its id.
C31_RefreshedNotMarked ==
    [][\A s \in StaleSweepers :
          (sweep[s].pc = "mark_write" /\ sweep'[s].wrote # sweep[s].wrote)
          => LET id == sweep[s].found[sweep[s].i]
             IN  \A p \in Procs :
                   ~ ( /\ proc[p].op = "ingest"
                       /\ proc[p].pc = "done"
                       /\ proc[p].run_id = id
                       /\ proc[p].status = StatusOK
                       /\ proc[p].wver > sweep[s].ver0[id] )]_vars

\* C32: the retention sweep does not delete a run that an ingest has
\* refreshed since the sweep's range query matched it, the run's
\* updated_at_timestamp being at or after the cutoff when the delete is
\* issued.
C32_RefreshedNotDeleted ==
    [][\A s \in OldSweepers :
          (sweep[s].pc = "deleting" /\ sweep'[s].wrote # sweep[s].wrote)
          => LET id == sweep[s].found[sweep[s].i]
                 cutoff == CutoffTimestamp(sweep[s].at, DataRetentionPeriod)
             IN  \A p \in Procs :
                   ~ ( /\ proc[p].op = "ingest"
                       /\ proc[p].pc = "done"
                       /\ proc[p].run_id = id
                       /\ proc[p].wver = ver[id]
                       /\ id \in DOMAIN runs
                       /\ runs[id].updated_at_timestamp >= cutoff )]_vars

\* C33: a document that does not exist comes into existence only by the write
\* of a call that found it missing: no StoreSamples or MarkRunAsFinished that
\* read the run's document before its deletion writes it back.
C33_DeletedStaysDeleted ==
    [][\A r \in RunIds :
          (r \notin DOMAIN runs /\ r \in DOMAIN runs')
          => \E p \in Procs :
                /\ proc[p].pc = "ss_write"
                /\ proc'[p].pc # "ss_write"
                /\ proc[p].run_id = r
                /\ proc[p].rver = ver[r]]_vars

\* C34: in every stored document finished holds exactly when finished_at is
\* set, and a finished_at that is set keeps its value as long as the document
\* exists.
C34_FinishedAtFixed ==
    [][\A r \in DOMAIN runs :
          /\ runs[r].finished <=> runs[r].finished_at # ZeroTime
          /\ (r \in DOMAIN runs' /\ runs[r].finished_at # ZeroTime)
             => runs'[r].finished_at = runs[r].finished_at]_vars

\* C35: the start_time of a run's document keeps the value it was created
\* with as long as the document exists.
C35_StartTimeFixed ==
    [][\A r \in DOMAIN runs :
          r \in DOMAIN runs' => runs'[r].start_time = runs[r].start_time]_vars


\* C36: an authenticated ingest for a finished run, served with no other
\* write between its Get and its Set, is answered 200, appends its samples
\* and sets updated_at and updated_at_timestamp to the time of the call,
\* while finished stays true and finished_at keeps its value; FindStaleRuns
\* does not return the run afterwards, and DeleteOldRuns matches it one
\* retention period after the ingest and not before.
C36_FinishedRunIngest ==
    [][\A p \in Serial :
          LET id == proc[p].run_id
          IN  ( /\ proc[p].op = "ingest"
                /\ proc[p].pc = "ss_write"
                /\ proc'[p].pc = "done"
                /\ id \in DOMAIN runs
                /\ proc[p].rver = ver[id]
                /\ runs[id].finished )
              => /\ proc'[p].status = StatusOK
                 /\ id \in DOMAIN runs'
                 /\ runs'[id].samples = runs[id].samples \o proc[p].samples
                 /\ runs'[id].updated_at = now
                 /\ runs'[id].updated_at_timestamp = ToMillis(now)
                 /\ runs'[id].finished
                 /\ runs'[id].finished_at = runs[id].finished_at
                 /\ \A t \in {now, now + BuildTimeout + 1,
                               now + DataRetentionPeriod} :
                       LET stale == FindStaleRuns(runs', t, BuildTimeout)
                       IN  \A i \in DOMAIN stale : stale[i] # id
                 /\ LET old == TickOldQuery(runs', now + DataRetentionPeriod)
                    IN  \A i \in DOMAIN old : old[i] # id
                 /\ LET old == TickOldQuery(runs', now + DataRetentionPeriod
                                                     + Millisecond)
                    IN  \E i \in DOMAIN old : old[i] = id]_vars

\* a finished run has taken the samples of an ingest that came after it
\* was marked
C36_IngestedAfterFinish ==
    \E p \in Serial :
       LET id == proc[p].run_id
       IN  /\ proc[p].op = "ingest"
           /\ proc[p].pc = "done"
           /\ proc[p].status = StatusOK
           /\ id \in DOMAIN runs
           /\ proc[p].wver = ver[id]
           /\ runs[id].finished
           /\ runs[id].updated_at > runs[id].finished_at
           /\ Len(runs[id].samples) >= 2

\* C37: with the stale timeout of 5 minutes, the stale ticker of 2 minutes,
\* the retention period of 3 hours and the retention ticker of 30 minutes,
\* both loops receiving their ticks and the storage answering every call,
\* every document the retention loop deletes has finished = true when it is
\* deleted.
C37_DeletedAreFinished ==
    [][\A s \in OldSweepers :
          (sweep[s].pc = "deleting" /\ sweep'[s].wrote # sweep[s].wrote)
          => LET id == sweep[s].found[sweep[s].i]
             IN  id \in DOMAIN runs /\ runs[id].finished]_vars

\* the retention loop has deleted a run more than a retention period after
\* the run was marked finished
C37_DeletedLongAfterMark ==
    \E r \in sweep["oldLoop"].wrote :
        /\ r \notin DOMAIN runs
        /\ sweep["oldLoop"].base[r].finished
        /\ sweep["oldLoop"].at
             > sweep["oldLoop"].base[r].finished_at + DataRetentionPeriod

(***************************************************************************)
(* Payloads without a well-formed line.                                    *)
(***************************************************************************)
\* C38: an authenticated ingest whose data is not empty and has no
\* well-formed line calls StoreSamples with an empty batch and is answered
\* 200 with samples = 0; the write creates the document of a new run with no
\* samples, and leaves the samples of an existing run as they are while
\* setting its updated_at and updated_at_timestamp to the time of the call.
C38_EmptyBatchStored ==
    [][\A p \in Serial :
          LET id == proc[p].run_id
          IN  ( /\ proc[p].op = "ingest"
                /\ proc[p].pc = "ss_write"
                /\ proc'[p].pc = "done"
                /\ proc[p].data # <<>>
                /\ SelectSeq(NonEmptyLines(proc[p].data), WellFormed) = <<>> )
              => /\ proc[p].samples = <<>>
                 /\ proc'[p].status = StatusOK
                 /\ IngestResponse(p)'.status = "success"
                 /\ IngestResponse(p)'.samples = 0
                 /\ ver'[id] = ver[id] + 1
                 /\ id \in DOMAIN runs'
                 /\ runs'[id].samples = IF id \in DOMAIN runs
                                        THEN runs[id].samples ELSE <<>>
                 /\ runs'[id].updated_at = now
                 /\ runs'[id].updated_at_timestamp = ToMillis(now)]_vars

\* a payload of one malformed line has been stored for a run that had one
\* sample: the sample is all the document holds, and its updated_at is later
\* than its creation
C38_RefreshedWithoutSamples ==
    \E p \in Serial :
       LET id == proc[p].run_id
       IN  /\ proc[p].op = "ingest"
           /\ proc[p].pc = "done"
           /\ proc[p].status = StatusOK
           /\ NonEmptyLines(proc[p].data) # <<>>
           /\ SelectSeq(NonEmptyLines(proc[p].data), WellFormed) = <<>>
           /\ id \in DOMAIN runs
           /\ proc[p].wver = ver[id]
           /\ Len(runs[id].samples) = 1
           /\ runs[id].updated_at > runs[id].created_at
           /\ runs[id].updated_at_timestamp > ToMillis(runs[id].created_at)

(***************************************************************************)
(* What a write leaves alone.                                              *)
(***************************************************************************)
\* C39: on a run that exists, with no other write between its Get and its
\* Set, StoreSamples changes no field of the run's document but samples,
\* updated_at and updated_at_timestamp, and MarkRunAsFinished no field but
\* finished, finished_at, updated_at and updated_at_timestamp; neither
\* creates, deletes or changes the document of another run.
C39_WritesFrame ==
    [][\A p \in Procs :
          LET id == proc[p].run_id
              others == \A r \in RunIds \ {id} :
                          /\ r \in DOMAIN runs' <=> r \in DOMAIN runs
                          /\ r \in DOMAIN runs => runs'[r] = runs[r]
              alone == id \in DOMAIN runs /\ proc[p].rver = ver[id]
          IN  /\ ( /\ proc[p].pc = "ss_write"
                   /\ proc'[p].pc # "ss_write"
                   /\ alone )
                 => /\ id \in DOMAIN runs'
                    /\ runs'[id]
                         = [runs[id] EXCEPT
                              !.samples = runs'[id].samples,
                              !.updated_at = runs'[id].updated_at,
                              !.updated_at_timestamp =
                                  runs'[id].updated_at_timestamp]
                    /\ others
              /\ ( /\ proc[p].pc = "mf_write"
                   /\ proc'[p].pc # "mf_write"
                   /\ alone )
                 => /\ id \in DOMAIN runs'
                    /\ runs'[id]
                         = [runs[id] EXCEPT
                              !.finished = runs'[id].finished,
                              !.finished_at = runs'[id].finished_at,
                              !.updated_at = runs'[id].updated_at,
                              !.updated_at_timestamp =
                                  runs'[id].updated_at_timestamp]
                    /\ others]_vars

\* a run has been written by a second StoreSamples and then by a
\* MarkRunAsFinished, each alone between its Get and its Set: the document
\* is finished and holds the samples of both ingests
C39_StoredThenMarked ==
    \E q \in Procs :
       LET id == proc[q].run_id
       IN  /\ proc[q].op = "finish"
           /\ proc[q].pc = "done"
           /\ proc[q].status = StatusOK
           /\ proc[q].rver = 2
           /\ proc[q].wver = 3
           /\ ver[id] = 3
           /\ id \in DOMAIN runs
           /\ runs[id].finished
           /\ Len(runs[id].samples) = 2
=============================================================================
